---------------------------- MODULE Spec2Model ----------------------------
(***************************************************************************)
(* A model of snmpbug: the OID functions of utils.c, the MIB table of      *)
(* mib.c and the transport loop of snmpbug.c.                              *)
(*                                                                         *)
(* C integers wider than TLC's are kept as big-endian sequences of 16-bit  *)
(* limbs: an unsigned int is <<hi, lo>>, an unsigned long four limbs.      *)
(* A text is a sequence of one-character strings; the position one past    *)
(* its end is the terminating NUL.                                         *)
(***************************************************************************)
EXTENDS Integers, Sequences, FiniteSets, TLC

VARIABLES
    call,                       \* the last call of an OID function: its arguments and result
    ber,                        \* the last call of a BER encoder: its arguments and result
    start,                      \* the start of main: the options, the ports, the sockets
    tick,                       \* the timers of main: tv_last, tv_now, tv_sleep
    g_interface_list_length,    \* number of monitored interfaces
    g_disk_list_length,         \* number of monitored disks
    netinfo_in_addr,            \* netinfo.in_addr[] as mib_build finds it
    alloc_fail,                 \* the call of allocate() in data_alloc that returns NULL, 0 for none
    g_mib,                      \* the MIB table: g_mib[0 .. g_mib_length-1]
    mib_status,                 \* where mib_build is, and what it returned
    find,                       \* the last lookup in the MIB table
    pc,                         \* where main is in its loop
    g_quit,                     \* set by handle_signal
    g_tcp_client_list,          \* the TCP clients: g_tcp_client_list[0 .. g_tcp_client_list_length-1]
    g_udp_client,               \* the UDP client
    open_fds,                   \* the descriptors that are open
    rfds,                       \* the read set as select returned it, less the descriptors main has tested
    wfds,                       \* the write set as select returned it, less the descriptors main has tested
    pos_i,                      \* the index i of the client loop of main (from 1)
    now,                        \* time(NULL)
    ev,                         \* history: what the last handler of this pass did
    handled,                    \* history: the descriptors read from or sent to in this pass
    udp_ev                      \* history: what the last call of handle_udp_client did

callVars == <<call, ber, start, tick>>
mibVars == <<g_interface_list_length, g_disk_list_length, netinfo_in_addr,
             alloc_fail, g_mib, mib_status, find>>
netVars == <<pc, g_quit, g_tcp_client_list, g_udp_client, open_fds, rfds, wfds,
             pos_i, now, ev, handled, udp_ev>>
vars == <<callVars, mibVars, netVars>>

---------------------------------------------------------------------------
(* Program constants (snmpbug.h).                                          *)

\* the period of the MIB update in ticks of 10 ms, after g_timeout *= 100
g_timeout == 100

MAX_NR_OIDS == 20
MAX_NR_SUBIDS == 20

\* Capacities, scaled down from snmpbug.h (8 interfaces, 4 disks, 2048 MIB
\* entries) so that a build meets the end of the table.
MAX_NR_INTERFACES == 3
MAX_NR_DISKS == 1
MAX_NR_VALUES == 150

BER_TYPE_INTEGER == 2
BER_TYPE_OCTET_STRING == 4
BER_TYPE_NULL == 5
BER_TYPE_OID == 6
BER_TYPE_IP_ADDRESS == 64
BER_TYPE_COUNTER == 65
BER_TYPE_GAUGE == 66
BER_TYPE_TIME_TICKS == 67
BER_TYPE_COUNTER64 == 70
BER_TYPE_SEQUENCE == 48
BER_TYPE_SNMP_RESPONSE == 162

\* Capacities of the transport loop, scaled down from snmpbug.h (16 clients,
\* 2048 bytes of packet buffer) and from the system's FD_SETSIZE.
MAX_NR_CLIENTS == 2
MAX_PACKET_SIZE == 3
FD_SETSIZE == 8

\* the last value of time(NULL)
MaxTime == 1

---------------------------------------------------------------------------
(* 32-bit and 64-bit machine arithmetic on 16-bit limbs.                   *)

LimbBase == 256 * 256

Min(a, b) == IF a < b THEN a ELSE b

\* the unsigned int with value n, for 0 <= n < 2^31
U32(n) == <<n \div LimbBase, n % LimbBase>>

UINT_MAX == <<65535, 65535>>

\* unsigned comparison of two unsigned ints
ULt(x, y) == x[1] < y[1] \/ (x[1] = y[1] /\ x[2] < y[2])

\* (int)x < 0: the sign bit of the 32-bit pattern
IsNeg(x) == x[1] >= 32768

\* (int)x < (int)y: two's complement comparison of the two bit patterns
IntLt(x, y) == IF IsNeg(x) # IsNeg(y) THEN IsNeg(x) ELSE ULt(x, y)

\* x * m + c in unsigned int arithmetic (mod 2^32), for small m and c
MulAdd32(x, m, c) ==
    LET lo == x[2] * m + c
        hi == x[1] * m + (lo \div LimbBase)
    IN  <<hi % LimbBase, lo % LimbBase>>

\* x + y in unsigned int arithmetic (mod 2^32)
Add32(x, y) ==
    LET lo == x[2] + y[2]
        hi == x[1] + y[1] + (lo \div LimbBase)
    IN  <<hi % LimbBase, lo % LimbBase>>

\* x - y in unsigned int arithmetic (mod 2^32)
Sub32(x, y) ==
    LET lo == x[2] - y[2]
        borrow == IF lo < 0 THEN 1 ELSE 0
        hi == x[1] - y[1] - borrow
    IN  <<(hi + LimbBase) % LimbBase, (lo + LimbBase) % LimbBase>>

\* x / 10 and x % 10 of an unsigned int
Div10(x) ==
    LET t == (x[1] % 10) * LimbBase + x[2]
    IN  [q |-> <<x[1] \div 10, t \div 10>>, r |-> t % 10]

\* v * m + c on an unsigned long (four limbs); carry # 0 when it exceeds 64 bits
MulAdd64(v, m, c) ==
    LET t4 == v[4] * m + c
        t3 == v[3] * m + (t4 \div LimbBase)
        t2 == v[2] * m + (t3 \div LimbBase)
        t1 == v[1] * m + (t2 \div LimbBase)
    IN  [val |-> <<t1 % LimbBase, t2 % LimbBase, t3 % LimbBase, t4 % LimbBase>>,
         carry |-> t1 \div LimbBase]

ULONG_MAX == <<65535, 65535, 65535, 65535>>

\* -v in unsigned long arithmetic (mod 2^64)
Neg64(v) ==
    LET c == [i \in 1..4 |-> 65535 - v[i]]
        t4 == c[4] + 1
        t3 == c[3] + (t4 \div LimbBase)
        t2 == c[2] + (t3 \div LimbBase)
        t1 == c[1] + (t2 \div LimbBase)
    IN  <<t1 % LimbBase, t2 % LimbBase, t3 % LimbBase, t4 % LimbBase>>

\* (unsigned int)v of an unsigned long: the low 32 bits
Trunc32(v) == <<v[3], v[4]>>

---------------------------------------------------------------------------
(* Texts.                                                                  *)

NUL == "NUL"

At(str, p) == IF p >= 1 /\ p <= Len(str) THEN str[p] ELSE NUL

DecChar == [d \in 0..9 |-> CASE d = 0 -> "0" [] d = 1 -> "1" [] d = 2 -> "2"
                             [] d = 3 -> "3" [] d = 4 -> "4" [] d = 5 -> "5"
                             [] d = 6 -> "6" [] d = 7 -> "7" [] d = 8 -> "8"
                             [] OTHER -> "9"]

\* the value of a character as a digit, 99 when it is none
DigitVal(c) ==
    CASE c = "0" -> 0 [] c = "1" -> 1 [] c = "2" -> 2 [] c = "3" -> 3
      [] c = "4" -> 4 [] c = "5" -> 5 [] c = "6" -> 6 [] c = "7" -> 7
      [] c = "8" -> 8 [] c = "9" -> 9
      [] c \in {"a", "A"} -> 10 [] c \in {"b", "B"} -> 11
      [] c \in {"c", "C"} -> 12 [] c \in {"d", "D"} -> 13
      [] c \in {"e", "E"} -> 14 [] c \in {"f", "F"} -> 15
      [] OTHER -> 99

\* printf's %u of an unsigned int
RECURSIVE DecDigits(_)
DecDigits(x) ==
    LET d == Div10(x)
    IN  IF d.q = <<0, 0>> THEN <<DecChar[d.r]>>
        ELSE DecDigits(d.q) \o <<DecChar[d.r]>>

---------------------------------------------------------------------------
(* utils.c: oid_ntoa, oid_aton, oid_cmp.  An OID is the sequence of its    *)
(* sub-identifiers: subid_list[0 .. subid_list_length-1].                  *)

\* sizeof(buf) in oid_ntoa
NtoaBufSize == MAX_NR_SUBIDS * 10 + 2

\* the loop of oid_ntoa from sub-identifier i on: snprintf writes at most
\* sizeof(buf) - len - 1 characters of ".%u" and returns its full length
RECURSIVE NtoaLoop(_, _, _, _)
NtoaLoop(oid, i, buf, len) ==
    IF i > Len(oid) THEN buf
    ELSE LET piece == <<".">> \o DecDigits(oid[i])
             room == NtoaBufSize - len - 1
             buf2 == buf \o SubSeq(piece, 1, Min(Len(piece), room))
             len2 == len + Len(piece)
         IN  IF len2 >= NtoaBufSize THEN buf2
             ELSE NtoaLoop(oid, i + 1, buf2, len2)

oid_ntoa(oid) == NtoaLoop(oid, 1, <<>>, 0)

\* isspace() in the C locale, for the characters the texts use
IsSpace(c) == c \in {" ", "\t"}

RECURSIVE SkipSpace(_, _)
SkipSpace(str, p) == IF IsSpace(At(str, p)) THEN SkipSpace(str, p + 1) ELSE p

\* the digit loop of strtoul: consumes the digits of the base, keeps going
\* after an overflow
RECURSIVE StrtoulDigits(_, _, _, _, _, _)
StrtoulDigits(str, p, base, acc, any, ovf) ==
    IF DigitVal(At(str, p)) < base
    THEN LET m == MulAdd64(acc, base, DigitVal(At(str, p)))
         IN  StrtoulDigits(str, p + 1, base, m.val, TRUE, ovf \/ m.carry # 0)
    ELSE [val |-> acc, end |-> p, any |-> any, ovf |-> ovf]

\* strtoul(str + p - 1, &end, 0) of an LP64 C library: white space, a sign,
\* base 16 after 0x, base 8 after 0, base 10 otherwise; no digits: 0 and the
\* end pointer is the start pointer; overflow: ULONG_MAX; a minus sign negates
strtoul(str, p) ==
    LET p1 == SkipSpace(str, p)
        neg == At(str, p1) = "-"
        p2 == IF At(str, p1) \in {"+", "-"} THEN p1 + 1 ELSE p1
        hex == /\ At(str, p2) = "0"
               /\ At(str, p2 + 1) \in {"x", "X"}
               /\ DigitVal(At(str, p2 + 2)) < 16
        base == IF hex THEN 16 ELSE IF At(str, p2) = "0" THEN 8 ELSE 10
        p3 == IF hex THEN p2 + 2 ELSE p2
        d == StrtoulDigits(str, p3, base, <<0, 0, 0, 0>>, FALSE, FALSE)
    IN  IF ~d.any THEN [val |-> <<0, 0, 0, 0>>, end |-> p]
        ELSE IF d.ovf THEN [val |-> ULONG_MAX, end |-> d.end]
        ELSE IF neg THEN [val |-> Neg64(d.val), end |-> d.end]
        ELSE [val |-> d.val, end |-> d.end]

\* the result of oid_aton: a pointer to the static oid, or NULL
AtonNull == [ok |-> FALSE, oid |-> <<>>]

\* the final test of oid_aton, in unsigned int arithmetic
AtonFinish(oid) ==
    IF Len(oid) < 2 \/ ULt(U32(255), Add32(MulAdd32(oid[1], 40, 0), oid[2]))
    THEN AtonNull
    ELSE [ok |-> TRUE, oid |-> oid]

\* the while loop of oid_aton with ptr at position p
RECURSIVE AtonLoop(_, _, _)
AtonLoop(str, p, oid) ==
    IF At(str, p) = NUL THEN AtonFinish(oid)
    ELSE IF Len(oid) >= MAX_NR_SUBIDS THEN AtonNull
    ELSE IF At(str, p) # "." THEN AtonNull
    ELSE IF At(str, p + 1) = NUL THEN AtonNull
    ELSE LET r == strtoul(str, p + 1)
         IN  AtonLoop(str, r.end, Append(oid, Trunc32(r.val)))

oid_aton(str) == AtonLoop(str, 1, <<>>)

\* subid1, subid2 of oid_cmp: (int)subid_list[i], or -1 past the length
\* (i counts from 0 as in the code)
CmpSubid(oid, i) == IF Len(oid) > i THEN oid[i + 1] ELSE UINT_MAX

\* the for loop of oid_cmp from index i on
RECURSIVE CmpLoop(_, _, _)
CmpLoop(oid1, oid2, i) ==
    IF i >= MAX_NR_OIDS THEN 0
    ELSE LET subid1 == CmpSubid(oid1, i)
             subid2 == CmpSubid(oid2, i)
         IN  IF subid1 = UINT_MAX /\ subid2 = UINT_MAX THEN 0
             ELSE IF IntLt(subid2, subid1) THEN 1
             ELSE IF IntLt(subid1, subid2) THEN -1
             ELSE CmpLoop(oid1, oid2, i + 1)

oid_cmp(oid1, oid2) == CmpLoop(oid1, oid2, 0)

---------------------------------------------------------------------------
(* mib.c: the MIB table.  An entry is its OID, its BER type and whether    *)
(* data_set has written a value into its data buffer.                      *)

Oid(subids) == [i \in 1..Len(subids) |-> U32(subids[i])]

m_system_oid == Oid(<<1, 3, 6, 1, 2, 1, 1>>)
m_if_1_oid == Oid(<<1, 3, 6, 1, 2, 1, 2>>)
m_if_2_oid == Oid(<<1, 3, 6, 1, 2, 1, 2, 2, 1>>)
m_ip_oid == Oid(<<1, 3, 6, 1, 2, 1, 4>>)
m_tcp_oid == Oid(<<1, 3, 6, 1, 2, 1, 6>>)
m_udp_oid == Oid(<<1, 3, 6, 1, 2, 1, 7>>)
m_host_oid == Oid(<<1, 3, 6, 1, 2, 1, 25, 1>>)
m_ifxtable_oid == Oid(<<1, 3, 6, 1, 2, 1, 31, 1, 1, 1>>)
m_memory_oid == Oid(<<1, 3, 6, 1, 4, 1, 2021, 4>>)
m_disk_oid == Oid(<<1, 3, 6, 1, 4, 1, 2021, 9, 1>>)
m_load_oid == Oid(<<1, 3, 6, 1, 4, 1, 2021, 10, 1>>)
m_cpu_oid == Oid(<<1, 3, 6, 1, 4, 1, 2021, 11>>)

\* m_ip_adentryaddr_oid .. m_ip_adentrybcaddr_oid: column 1..4 of the IP
\* address table, with four sub-identifiers for the address
m_ip_adentry_oid(column) == Oid(<<1, 3, 6, 1, 2, 1, 4, 20, 1, column, 0, 0, 0, 0>>)

\* VENDOR of config.h, the default of g_vendor
VendorText == <<".", "1", ".", "3", ".", "6", ".", "1", ".", "4", ".", "1">>

\* an initial value handed to data_set: a pointer that may be NULL, and the
\* text it points to when the type is OID
ArgValue == [null |-> FALSE, text |-> <<>>, value |-> <<0, 0>>,
             value64 |-> <<0, 0, 0, 0>>]
ArgText(text) == [ArgValue EXCEPT !.text = text]

\* oid_build: the prefix, then column and row while there is room
oid_build(prefix, column, row) ==
    IF Len(prefix) >= MAX_NR_SUBIDS THEN [ok |-> FALSE, oid |-> prefix]
    ELSE IF Len(prefix) + 1 >= MAX_NR_SUBIDS
         THEN [ok |-> FALSE, oid |-> Append(prefix, U32(column))]
    ELSE [ok |-> TRUE, oid |-> Append(Append(prefix, U32(column)), U32(row))]

\* encode_oid_len: the encoded length of the OID, and 0, or -1 when the
\* length passes 0xFFFF
RECURSIVE SubidsLen(_, _)
SubidsLen(oid, i) ==
    IF i > Len(oid) THEN 0
    ELSE (IF oid[i][1] >= 4096 THEN 5
          ELSE IF oid[i][1] >= 32 THEN 4
          ELSE IF oid[i][1] > 0 \/ oid[i][2] >= 16384 THEN 3
          ELSE IF oid[i][2] >= 128 THEN 2
          ELSE 1) + SubidsLen(oid, i + 1)

encode_oid_len(oid) ==
    LET len == 1 + SubidsLen(oid, 3)
    IN  IF len > 65535 THEN [ret |-> -1, encoded_length |-> -1]
        ELSE [ret |-> 0,
              encoded_length |-> IF len > 255 THEN len + 4
                                 ELSE IF len > 127 THEN len + 3 ELSE len + 2]

\* a & b of two 16-bit limbs
RECURSIVE BitAnd(_, _)
BitAnd(a, b) ==
    IF a = 0 \/ b = 0 THEN 0
    ELSE (a % 2) * (b % 2) + 2 * BitAnd(a \div 2, b \div 2)

\* value & mask is not 0, on values of two or four limbs
Masked(value, mask) == \E n \in 1..Len(value) : BitAnd(value[n], mask[n]) # 0

\* (value >> (8 * k)) & 0xFF
ByteOf(value, k) ==
    IF k % 2 = 1 THEN value[Len(value) - (k \div 2)] \div 256
    ELSE value[Len(value) - (k \div 2)] % 256

\* while (length--) *buffer++ = (value >> (8 * length)) & 0xFF;
ValueOctets(value, length) == [j \in 1..length |-> ByteOf(value, length - j)]

\* an octet of memory that malloc or realloc returned and that nothing has
\* written yet
Unwritten == 256

Fill(n, octet) == [k \in 1..n |-> octet]

\* the conversion of an offset in the buffer to the short encoded_length
ToShort(n) == IF n % 65536 >= 32768 THEN (n % 65536) - 65536 ELSE n % 65536

\* the buffer after octets are written from its start; a buffer longer
\* than max_length afterwards has been written beyond its end
Overwrite(buffer, octets) ==
    IF Len(octets) >= Len(buffer) THEN octets
    ELSE octets \o SubSeq(buffer, Len(octets) + 1, Len(buffer))

\* a data_alloc that gives every type four octets
MaxLengthFour(type) == 4

\* max_length of data_alloc for a type
MaxLength(type) ==
    CASE type = BER_TYPE_INTEGER -> 6
      [] type = BER_TYPE_IP_ADDRESS -> 6
      [] type = BER_TYPE_OCTET_STRING -> 4
      [] type = BER_TYPE_OID -> MAX_NR_SUBIDS * 5 + 4
      [] type = BER_TYPE_COUNTER64 -> 10
      [] type = BER_TYPE_NULL -> 3
      [] OTHER -> 7

\* the data data_alloc leaves for a type: buffer is the max_length octets
\* of data->buffer
AllocData(type) ==
    [buffer |-> <<type, 0, 0>> \o Fill(MaxLength(type) - 3, Unwritten),
     max_length |-> MaxLength(type),
     encoded_length |-> 3]

\* the data data_alloc leaves when allocate() returns NULL
FailedData(type) ==
    [buffer |-> <<>>, max_length |-> MaxLength(type), encoded_length |-> 0]

\* the end of an encoder: the octets are in the buffer, written is
\* buffer - data->buffer, and encoded_length is written as a short
Written(data, octets) ==
    [ret |-> 0,
     data |-> [data EXCEPT !.buffer = Overwrite(@, octets),
                           !.encoded_length = ToShort(Len(octets))],
     written |-> Len(octets)]

\* an encoder that returns ret before it writes
NotWritten(data, ret) == [ret |-> ret, data |-> data, written |-> 0]

\* the encoded value: type, length, value octets
Encoded(data, type, value, length) ==
    Written(data, <<type, length>> \o ValueOctets(value, length))

\* encode_ipaddress: the four octets of the address
encode_ipaddress(data, ipaddress) == Encoded(data, BER_TYPE_IP_ADDRESS, ipaddress, 4)

\* an encode_integer that always writes four octets
encode_integer_wide(data, integer_value) ==
    Encoded(data, BER_TYPE_INTEGER, integer_value, 4)

\* encode_integer: integer_value is the bit pattern of the int
encode_integer(data, integer_value) ==
    Encoded(data, BER_TYPE_INTEGER, integer_value,
            IF IntLt(integer_value, <<65408, 0>>) \/ IntLt(<<127, 65535>>, integer_value)
            THEN 4
            ELSE IF IntLt(integer_value, <<65535, 32768>>)
                    \/ IntLt(<<0, 32767>>, integer_value)
            THEN 3
            ELSE IF IntLt(integer_value, <<65535, 65408>>)
                    \/ IntLt(<<0, 127>>, integer_value)
            THEN 2
            ELSE 1)

\* encode_unsigned: the masks are 0xFF800000, 0x007F8000 and 0x00007F80
encode_unsigned(data, type, ticks_value) ==
    Encoded(data, type, ticks_value,
            IF Masked(ticks_value, <<65408, 0>>) THEN 4
            ELSE IF Masked(ticks_value, <<127, 32768>>) THEN 3
            ELSE IF Masked(ticks_value, <<0, 32640>>) THEN 2
            ELSE 1)

\* encode_unsigned64: the masks are 0xFF80000000000000ULL down to
\* 0x0000000000007F80ULL
encode_unsigned64(data, type, ticks_value) ==
    Encoded(data, type, ticks_value,
            IF Masked(ticks_value, <<65408, 0, 0, 0>>) THEN 8
            ELSE IF Masked(ticks_value, <<127, 32768, 0, 0>>) THEN 7
            ELSE IF Masked(ticks_value, <<0, 32640, 0, 0>>) THEN 6
            ELSE IF Masked(ticks_value, <<0, 127, 32768, 0>>) THEN 5
            ELSE IF Masked(ticks_value, <<0, 0, 32640, 0>>) THEN 4
            ELSE IF Masked(ticks_value, <<0, 0, 127, 32768>>) THEN 3
            ELSE IF Masked(ticks_value, <<0, 0, 0, 32640>>) THEN 2
            ELSE 1)

\* type and length octets with one length octet for every len above 127
ByteArrayHeaderOne(len) ==
    IF len > 127 THEN <<BER_TYPE_OCTET_STRING, 129, len % 256>>
    ELSE <<BER_TYPE_OCTET_STRING, len % 128>>

\* type and length octets of an OCTET STRING of len octets
ByteArrayHeader(len) ==
    IF len > 255
    THEN <<BER_TYPE_OCTET_STRING, 130, (len \div 256) % 256, len % 256>>
    ELSE IF len > 127 THEN <<BER_TYPE_OCTET_STRING, 129, len % 256>>
    ELSE <<BER_TYPE_OCTET_STRING, len % 128>>

\* the realloc of encode_byte_array for a string of len octets
Grown(data, len) ==
    IF len + 4 > data.max_length
    THEN [data EXCEPT !.max_length = len + 4,
                      !.buffer = @ \o Fill(len + 4 - Len(@), Unwritten)]
    ELSE data

\* encode_byte_array on a string of len octets; realloc_ok says whether
\* realloc returns memory when the buffer has to grow
encode_byte_array(data, string, len, realloc_ok) ==
    IF string.null THEN NotWritten(data, 2)
    ELSE IF len + 4 > data.max_length /\ ~realloc_ok
    THEN NotWritten([data EXCEPT !.max_length = len + 4, !.buffer = <<>>], 2)
    ELSE IF len > 65535 THEN NotWritten(Grown(data, len), -1)
    ELSE Written(Grown(data, len), ByteArrayHeader(len) \o SubSeq(string.text, 1, len))

\* encode_string: strlen is the length of the text
encode_string(data, string, realloc_ok) ==
    IF string.null THEN NotWritten(data, 2)
    ELSE encode_byte_array(data, string, Len(string.text), realloc_ok)

\* the number of octets of one sub-identifier in encode_oid
SubidLen(subid) ==
    IF subid[1] >= 4096 THEN 5
    ELSE IF subid[1] >= 32 THEN 4
    ELSE IF subid[1] > 0 \/ subid[2] >= 16384 THEN 3
    ELSE IF subid[2] >= 128 THEN 2
    ELSE 1

\* (subid >> (7 * k)) & 0x7F for k = 4 .. 0
SubidGroups(subid) ==
    << subid[1] \div 4096, (subid[1] \div 32) % 128,
       (subid[1] % 32) * 4 + subid[2] \div 16384,
       (subid[2] \div 128) % 128, subid[2] % 128 >>

\* the octets of one sub-identifier: 0x80 is set on all but the last
SubidOctets(subid) ==
    [j \in 1..SubidLen(subid) |->
        SubidGroups(subid)[5 - SubidLen(subid) + j]
        + (IF j < SubidLen(subid) THEN 128 ELSE 0)]

\* the octets of the sub-identifiers from the i-th on
RECURSIVE OidOctets(_, _)
OidOctets(oid, i) ==
    IF i > Len(oid) THEN <<>> ELSE SubidOctets(oid[i]) \o OidOctets(oid, i + 1)

\* type and length octets of an OID of len octets
OidHeader(len) ==
    IF len > 255 THEN <<BER_TYPE_OID, 130, (len \div 256) % 256, len % 256>>
    ELSE IF len > 127 THEN <<BER_TYPE_OID, 129, len % 256>>
    ELSE <<BER_TYPE_OID, len % 128>>

\* encode_oid on what oid_aton returned; the first octet is
\* subid_list[0] * 40 + subid_list[1] stored in an unsigned char
encode_oid(data, aton) ==
    IF ~aton.ok THEN NotWritten(data, 2)
    ELSE IF 1 + SubidsLen(aton.oid, 3) > 65535 THEN NotWritten(data, -1)
    ELSE Written(data,
                 OidHeader(1 + SubidsLen(aton.oid, 3))
                 \o <<((aton.oid[1][2] % 256) * 40 + aton.oid[2][2]) % 256>>
                 \o OidOctets(aton.oid, 3))

DataTypes == {BER_TYPE_INTEGER, BER_TYPE_IP_ADDRESS, BER_TYPE_OCTET_STRING,
              BER_TYPE_OID, BER_TYPE_COUNTER64, BER_TYPE_COUNTER, BER_TYPE_GAUGE,
              BER_TYPE_TIME_TICKS, BER_TYPE_NULL}

\* data_alloc for the k-th entry of the table: 0, or -1 for an unsupported
\* type or when allocate() returns NULL
data_alloc(type, k, failAt) == IF type \in DataTypes /\ k # failAt THEN 0 ELSE -1

\* the memset of data_set
Cleared(data) == [data EXCEPT !.buffer = Fill(data.max_length, 0)]

\* data_set: ret is 0, 1 for an unsupported type, 2 for an invalid value,
\* -1 for an encoding failure (the buffer of a string grows as needed)
data_set(data, type, arg) ==
    CASE type = BER_TYPE_INTEGER -> encode_integer(Cleared(data), arg.value)
      [] type = BER_TYPE_IP_ADDRESS -> encode_ipaddress(Cleared(data), arg.value)
      [] type = BER_TYPE_OCTET_STRING -> encode_string(Cleared(data), arg, TRUE)
      [] type = BER_TYPE_OID ->
            encode_oid(Cleared(data), IF arg.null THEN AtonNull ELSE oid_aton(arg.text))
      [] type = BER_TYPE_COUNTER64 ->
            encode_unsigned64(Cleared(data), type, arg.value64)
      [] type \in {BER_TYPE_COUNTER, BER_TYPE_GAUGE, BER_TYPE_TIME_TICKS} ->
            encode_unsigned(Cleared(data), type, arg.value)
      [] type = BER_TYPE_NULL -> NotWritten(Cleared(data), 0)
      [] OTHER -> NotWritten(Cleared(data), 1)

\* the entry mib_alloc_entry adds, with the data data_alloc left when it
\* returned alloc
NewEntry(oid, type, alloc) ==
    [oid |-> oid, type |-> type, set |-> FALSE,
     data |-> IF alloc = 0 THEN AllocData(type) ELSE FailedData(type)]

\* In the operators below a value that is used more than once is bound
\* through a one-element set, so that it is computed once.

\* mib_alloc_entry: the table after the call, whether it returned an entry,
\* and whether it met the end of the table
mib_alloc_entry(mib, prefix, column, row, type, failAt) ==
    IF Len(mib) >= MAX_NR_VALUES
    THEN [mib |-> mib, ok |-> FALSE, overflow |-> TRUE]
    ELSE CHOOSE res \in
            {[mib |-> Append(mib, NewEntry(b.oid, type,
                                           data_alloc(type, Len(mib) + 1, failAt))),
              ok |-> b.ok /\ encode_oid_len(b.oid).ret
                              + data_alloc(type, Len(mib) + 1, failAt) = 0,
              overflow |-> FALSE] : b \in {oid_build(prefix, column, row)}} : TRUE

\* mib_data_set on the last entry of the table
mib_data_set(mib, type, arg) ==
    CHOOSE res \in
        {[mib |-> [i \in 1..Len(mib) |->
                      IF i = Len(mib)
                      THEN [mib[i] EXCEPT !.set = r.ret = 0, !.data = r.data]
                      ELSE mib[i]],
          ok |-> r.ret = 0, overflow |-> FALSE] :
            r \in {data_set(mib[Len(mib)].data, type, arg)}} : TRUE

mib_build_entry(mib, prefix, column, row, type, arg, failAt) ==
    CHOOSE res \in
        {IF ~a.ok THEN a ELSE mib_data_set(a.mib, type, arg) :
            a \in {mib_alloc_entry(mib, prefix, column, row, type, failAt)}} : TRUE

mib_build_ip_entry(mib, oid, type, arg, failAt) ==
    IF Len(mib) >= MAX_NR_VALUES
    THEN [mib |-> mib, ok |-> FALSE, overflow |-> TRUE]
    ELSE CHOOSE res \in
            {IF encode_oid_len(oid).ret + data_alloc(type, Len(mib2), failAt) # 0
             THEN [mib |-> mib2, ok |-> FALSE, overflow |-> FALSE]
             ELSE mib_data_set(mib2, type, arg) :
                mib2 \in {Append(mib, NewEntry(oid, type,
                                               data_alloc(type, Len(mib) + 1, failAt)))}} : TRUE

\* in_cmp: the sign of (int)(a->addr - b->addr)
in_cmp(a, b) ==
    LET diff == Sub32(a, b)
    IN  IF diff = <<0, 0>> THEN 0 ELSE IF IsNeg(diff) THEN -1 ELSE 1

Perms(n) == {p \in [1..n -> 1..n] : \A i, j \in 1..n : i # j => p[i] # p[j]}

\* whether in_cmp orders the addresses consistently, as qsort requires
InCmpConsistent(addr, n) ==
    /\ \A i, j \in 1..n : in_cmp(addr[i], addr[j]) = -in_cmp(addr[j], addr[i])
    /\ \A i, j, k \in 1..n :
          in_cmp(addr[i], addr[j]) <= 0 /\ in_cmp(addr[j], addr[k]) <= 0
              => in_cmp(addr[i], addr[k]) <= 0

\* sort_addr: the orders of the positions 1..n that qsort may leave in
\* sorted_interface_list.  With a consistent in_cmp these are the orders it
\* calls ascending; with an inconsistent one qsort's result is undefined.
sort_addr(addr, n) ==
    IF InCmpConsistent(addr, n)
    THEN {p \in Perms(n) : \A i \in 1..(n - 1) : in_cmp(addr[p[i]], addr[p[i + 1]]) <= 0}
    ELSE Perms(n)

\* htonl on a little-endian host, then the bytes of ip from the lowest up:
\* the four sub-identifiers build_ip_mib stores at subid_list[10..13]
AddrSubids(a) ==
    <<U32(a[1] \div 256), U32(a[1] % 256), U32(a[2] \div 256), U32(a[2] % 256)>>

\* the loop of build_ip_mib from i on (i counts from 1)
RECURSIVE BuildIpLoop(_, _, _, _, _, _, _)
BuildIpLoop(mib, oid, type, sorted, addr, i, failAt) ==
    IF i > Len(sorted) THEN [mib |-> mib, ok |-> TRUE, overflow |-> FALSE]
    ELSE IF addr[sorted[i]] = <<0, 0>>
         THEN BuildIpLoop(mib, oid, type, sorted, addr, i + 1, failAt)
    ELSE CHOOSE res \in
            {IF ~r.ok THEN r
             ELSE BuildIpLoop(r.mib, SubSeq(oid, 1, 10) \o AddrSubids(addr[sorted[i]]),
                              type, sorted, addr, i + 1, failAt) :
                r \in {mib_build_ip_entry(mib,
                                          SubSeq(oid, 1, 10) \o AddrSubids(addr[sorted[i]]),
                                          type, ArgValue, failAt)}} : TRUE

build_ip_mib(mib, oid, type, sorted, addr, failAt) ==
    BuildIpLoop(mib, oid, type, sorted, addr, 1, failAt)

\* The calls of mib_build, in program order.  op says which function is
\* called; checked says whether mib_build returns -1 when the call fails.
EntryStep(prefix, column, row, type, arg) ==
    [op |-> "mib_build_entry", prefix |-> prefix, column |-> column, row |-> row,
     type |-> type, arg |-> arg, checked |-> TRUE]

AllocStep(prefix, column, row, type) ==
    [op |-> "mib_alloc_entry", prefix |-> prefix, column |-> column, row |-> row,
     type |-> type, arg |-> ArgValue, checked |-> TRUE]

IpStep(column, type) ==
    [op |-> "build_ip_mib", prefix |-> m_ip_adentry_oid(column), column |-> column,
     row |-> 0, type |-> type, arg |-> ArgValue, checked |-> FALSE]

\* a table column: one call per row 1..n
EntryRows(prefix, column, n, type, arg) ==
    [row \in 1..n |-> EntryStep(prefix, column, row, type, arg)]

AllocRows(prefix, column, n, type) ==
    [row \in 1..n |-> AllocStep(prefix, column, row, type)]

\* consecutive columns of one kind
RECURSIVE AllocColumns(_, _, _, _)
AllocColumns(prefix, columns, n, type) ==
    IF columns = <<>> THEN <<>>
    ELSE AllocRows(prefix, Head(columns), n, type)
         \o AllocColumns(prefix, Tail(columns), n, type)

RECURSIVE AllocScalars(_, _, _)
AllocScalars(prefix, columns, type) ==
    IF columns = <<>> THEN <<>>
    ELSE <<AllocStep(prefix, Head(columns), 0, type)>>
         \o AllocScalars(prefix, Tail(columns), type)

SystemSteps ==
    << EntryStep(m_system_oid, 1, 0, BER_TYPE_OCTET_STRING, ArgValue),
       EntryStep(m_system_oid, 2, 0, BER_TYPE_OID, ArgText(VendorText)),
       AllocStep(m_system_oid, 3, 0, BER_TYPE_TIME_TICKS),
       EntryStep(m_system_oid, 4, 0, BER_TYPE_OCTET_STRING, ArgValue),
       EntryStep(m_system_oid, 5, 0, BER_TYPE_OCTET_STRING, ArgValue),
       EntryStep(m_system_oid, 6, 0, BER_TYPE_OCTET_STRING, ArgValue),
       EntryStep(m_system_oid, 7, 0, BER_TYPE_INTEGER, ArgValue) >>

IfSteps(n) ==
    IF n = 0 THEN <<>>
    ELSE <<EntryStep(m_if_1_oid, 1, 0, BER_TYPE_INTEGER, ArgValue)>>
         \o EntryRows(m_if_2_oid, 1, n, BER_TYPE_INTEGER, ArgValue)
         \o EntryRows(m_if_2_oid, 2, n, BER_TYPE_OCTET_STRING, ArgValue)
         \o EntryRows(m_if_2_oid, 3, n, BER_TYPE_INTEGER, ArgValue)
         \o EntryRows(m_if_2_oid, 4, n, BER_TYPE_INTEGER, ArgValue)
         \o EntryRows(m_if_2_oid, 5, n, BER_TYPE_GAUGE, ArgValue)
         \o EntryRows(m_if_2_oid, 6, n, BER_TYPE_OCTET_STRING, ArgValue)
         \o EntryRows(m_if_2_oid, 7, n, BER_TYPE_INTEGER, ArgValue)
         \o EntryRows(m_if_2_oid, 8, n, BER_TYPE_INTEGER, ArgValue)
         \o EntryRows(m_if_2_oid, 9, n, BER_TYPE_TIME_TICKS, ArgValue)
         \o AllocColumns(m_if_2_oid, <<10, 11, 13, 14, 16, 17, 19, 20>>, n, BER_TYPE_COUNTER)

IpSteps ==
    AllocScalars(m_ip_oid, <<1, 2, 13>>, BER_TYPE_INTEGER)
    \o << IpStep(1, BER_TYPE_IP_ADDRESS), IpStep(2, BER_TYPE_INTEGER),
          IpStep(3, BER_TYPE_IP_ADDRESS), IpStep(4, BER_TYPE_INTEGER) >>

TcpSteps ==
    AllocScalars(m_tcp_oid, <<1, 2, 3, 4>>, BER_TYPE_INTEGER)
    \o AllocScalars(m_tcp_oid, <<5, 6, 7, 8>>, BER_TYPE_COUNTER)
    \o AllocScalars(m_tcp_oid, <<9>>, BER_TYPE_GAUGE)
    \o AllocScalars(m_tcp_oid, <<10, 11, 12, 14, 15>>, BER_TYPE_COUNTER)

UdpSteps ==
    AllocScalars(m_udp_oid, <<1, 2, 3, 4>>, BER_TYPE_COUNTER)
    \o AllocScalars(m_udp_oid, <<8, 9>>, BER_TYPE_COUNTER64)

HostSteps == AllocScalars(m_host_oid, <<1>>, BER_TYPE_TIME_TICKS)

IfXSteps(n) ==
    IF n = 0 THEN <<>>
    ELSE EntryRows(m_ifxtable_oid, 1, n, BER_TYPE_OCTET_STRING, ArgValue)
         \o AllocColumns(m_ifxtable_oid, <<2, 3, 4, 5>>, n, BER_TYPE_COUNTER)
         \o AllocColumns(m_ifxtable_oid, <<6, 7, 8, 9, 10, 11, 12, 13>>, n, BER_TYPE_COUNTER64)
         \o EntryRows(m_ifxtable_oid, 14, n, BER_TYPE_INTEGER, ArgValue)
         \o EntryRows(m_ifxtable_oid, 15, n, BER_TYPE_GAUGE, ArgValue)
         \o EntryRows(m_ifxtable_oid, 16, n, BER_TYPE_INTEGER, ArgValue)
         \o EntryRows(m_ifxtable_oid, 17, n, BER_TYPE_INTEGER, ArgValue)
         \o EntryRows(m_ifxtable_oid, 18, n, BER_TYPE_OCTET_STRING, ArgValue)
         \o EntryRows(m_ifxtable_oid, 19, n, BER_TYPE_TIME_TICKS, ArgValue)

MemorySteps == AllocScalars(m_memory_oid, <<5, 6, 13, 14, 15>>, BER_TYPE_INTEGER)

DiskSteps(d) ==
    IF d = 0 THEN <<>>
    ELSE EntryRows(m_disk_oid, 1, d, BER_TYPE_INTEGER, ArgValue)
         \o EntryRows(m_disk_oid, 2, d, BER_TYPE_OCTET_STRING, ArgValue)
         \o AllocColumns(m_disk_oid, <<6, 7, 8, 9, 10>>, d, BER_TYPE_INTEGER)

LoadSteps ==
    EntryRows(m_load_oid, 1, 3, BER_TYPE_INTEGER, ArgValue)
    \o EntryRows(m_load_oid, 2, 3, BER_TYPE_OCTET_STRING, ArgValue)
    \o AllocRows(m_load_oid, 3, 3, BER_TYPE_OCTET_STRING)
    \o EntryRows(m_load_oid, 4, 3, BER_TYPE_OCTET_STRING, ArgValue)
    \o AllocRows(m_load_oid, 5, 3, BER_TYPE_INTEGER)

CpuSteps == AllocScalars(m_cpu_oid, <<50, 51, 52, 53, 59, 60>>, BER_TYPE_COUNTER)

MibBuildSteps(n, d) ==
    SystemSteps \o IfSteps(n) \o IpSteps \o TcpSteps \o UdpSteps \o HostSteps
    \o IfXSteps(n) \o MemorySteps \o DiskSteps(d) \o LoadSteps \o CpuSteps

\* one call of mib_build
RunStep(mib, step, sorted, addr, failAt) ==
    CASE step.op = "mib_build_entry" ->
            mib_build_entry(mib, step.prefix, step.column, step.row, step.type,
                            step.arg, failAt)
      [] step.op = "mib_alloc_entry" ->
            mib_alloc_entry(mib, step.prefix, step.column, step.row, step.type, failAt)
      [] OTHER -> build_ip_mib(mib, step.prefix, step.type, sorted, addr, failAt)

\* The state of mib_build after a call that returned r; failed is the
\* length of the table when the first call that failed returned, 0 while
\* none has failed
AfterStep(st, step, r) ==
    [mib |-> r.mib,
     returned |-> ~r.ok /\ step.checked,
     ret |-> IF ~r.ok /\ step.checked THEN -1 ELSE 0,
     overflow |-> st.overflow \/ r.overflow,
     failed |-> IF st.failed = 0 /\ ~r.ok THEN Len(r.mib) ELSE st.failed]

\* The calls lo..hi of mib_build, from the state st the calls before them
\* left: mib_build returns -1 at the first checked call that fails, and goes
\* on after a failed call whose result it ignores.  (The range is halved
\* to keep the evaluation shallow; the calls run in program order.)
RECURSIVE RunSteps(_, _, _, _, _, _, _)
RunSteps(st, steps, lo, hi, sorted, addr, failAt) ==
    IF st.returned \/ lo > hi THEN st
    ELSE IF lo = hi
         THEN CHOOSE res \in
                 {AfterStep(st, steps[lo], r) :
                     r \in {RunStep(st.mib, steps[lo], sorted, addr, failAt)}} : TRUE
    ELSE CHOOSE res \in
            {RunSteps(left, steps, (lo + hi) \div 2 + 1, hi, sorted, addr, failAt) :
                left \in {RunSteps(st, steps, lo, (lo + hi) \div 2, sorted, addr, failAt)}} : TRUE

\* mib_build with sorted_interface_list as sort_addr left it
mib_build(n, d, sorted, addr, failAt) ==
    CHOOSE res \in
        {RunSteps([mib |-> <<>>, returned |-> FALSE, ret |-> 0, overflow |-> FALSE,
                   failed |-> 0],
                  steps, 1, Len(steps), sorted, addr, failAt) :
            steps \in {MibBuildSteps(n, d)}} : TRUE

\* the least element of a set of positions
First(positions) == CHOOSE p \in positions : \A q \in positions : p <= q

\* a test that passes only an entry of the length of the OID
FindTestEqual(curr, oid) ==
    /\ Len(curr.oid) = Len(oid)
    /\ \A n \in 1..Len(oid) : curr.oid[n] = oid[n]

\* the test of mib_find on the entry curr: the lengths, then memcmp on the
\* first subid_list_length sub-identifiers
FindTest(curr, oid) ==
    /\ Len(curr.oid) >= Len(oid)
    /\ \A n \in 1..Len(oid) : curr.oid[n] = oid[n]

\* the while loop of mib_find over the positions lo..hi (counted from 0):
\* the first position whose entry passes the test, -1 when the loop runs
\* out.  (The range is halved to keep the evaluation shallow; the
\* positions are tested in ascending order.)
RECURSIVE MibFindLoop(_, _, _, _)
MibFindLoop(mib, oid, lo, hi) ==
    IF lo > hi THEN -1
    ELSE IF lo = hi THEN (IF FindTest(mib[lo + 1], oid) THEN lo ELSE -1)
    ELSE CHOOSE res \in
            {IF left >= 0 THEN left
             ELSE MibFindLoop(mib, oid, (lo + hi) \div 2 + 1, hi) :
                left \in {MibFindLoop(mib, oid, lo, (lo + hi) \div 2)}} : TRUE

\* mib_find: the entry found, or none, and the cursor *pos (counted from
\* 0) as the loop leaves it
mib_find(mib, oid, pos) ==
    CHOOSE res \in
        {IF q >= 0 THEN [found |-> TRUE, pos |-> q]
         ELSE [found |-> FALSE, pos |-> IF pos > Len(mib) THEN pos ELSE Len(mib)] :
            q \in {MibFindLoop(mib, oid, pos, Len(mib) - 1)}} : TRUE

\* mib_findnext stopping at an entry that is not less than the OID
mib_findnext_ge(mib, oid) ==
    LET hits == {pos \in 0..(Len(mib) - 1) : oid_cmp(mib[pos + 1].oid, oid) >= 0}
    IN  IF hits = {} THEN [found |-> FALSE, pos |-> Len(mib)]
        ELSE [found |-> TRUE, pos |-> First(hits)]

\* mib_findnext: the first position (counted from 0) whose OID is greater
\* than the given one
mib_findnext(mib, oid) ==
    LET hits == {pos \in 0..(Len(mib) - 1) : oid_cmp(mib[pos + 1].oid, oid) > 0}
    IN  IF hits = {} THEN [found |-> FALSE, pos |-> Len(mib)]
        ELSE [found |-> TRUE, pos |-> First(hits)]

---------------------------------------------------------------------------
(* snmpbug.c: the transport loop.  A client is the client_t fields the     *)
(* loop uses; packet holds the first size bytes of the buffer.  Two        *)
(* history fields are added to a client: arrived, the bytes read from the  *)
(* connection since its buffer was last empty, and calls, the number of    *)
(* times the engine was invoked on them.                                   *)

\* the sockets opened at startup
g_udp_sockfd == 3
g_tcp_sockfd == 4

PacketBytes == {1, BER_TYPE_SEQUENCE}

Response(n) == [k \in 1..n |-> BER_TYPE_SNMP_RESPONSE]

NewClient(fd, t) ==
    [timestamp |-> t, sockfd |-> fd, size |-> 0, outgoing |-> 0, packet |-> <<>>,
     arrived |-> <<>>, calls |-> 0]

\* snmp_packet_complete (protocol.c): 1 once the outer length is fully
\* present, 0 while more bytes are needed, -1 for a packet that does not
\* start with a SEQUENCE.  The length is in the short form.
snmp_packet_complete(packet, size) ==
    IF size < 2 THEN 0
    ELSE IF packet[1] # BER_TYPE_SEQUENCE THEN -1
    ELSE IF size >= 2 + packet[2] THEN 1
    ELSE 0

\* the outcomes of snmp (protocol.c): -1, or 0 with a response of the given
\* size staged in the packet buffer (size 0: the request is ignored)
SnmpResults == {-1, 0, MAX_PACKET_SIZE}

snmp(client, result) ==
    IF result = -1 THEN [ret |-> -1, client |-> client]
    ELSE [ret |-> 0,
          client |-> [client EXCEPT !.size = result, !.packet = Response(result)]]

\* find_oldest_client: the position (from 1) of the first client with the
\* least timestamp, 0 for NULL.  The running minimum starts at LONG_MAX,
\* above every time of the model, so the first client always replaces it.
RECURSIVE FindOldestLoop(_, _, _, _, _)
FindOldestLoop(list, k, found, pos, timestamp) ==
    IF k > Len(list) THEN (IF found THEN pos ELSE 0)
    ELSE IF ~found \/ timestamp > list[k].timestamp
         THEN FindOldestLoop(list, k + 1, TRUE, k, list[k].timestamp)
    ELSE FindOldestLoop(list, k + 1, found, pos, timestamp)

\* find_oldest_client taking the greatest timestamp instead
RECURSIVE FindNewestLoop(_, _, _, _, _)
FindNewestLoop(list, k, found, pos, timestamp) ==
    IF k > Len(list) THEN (IF found THEN pos ELSE 0)
    ELSE IF ~found \/ timestamp < list[k].timestamp
         THEN FindNewestLoop(list, k + 1, TRUE, k, list[k].timestamp)
    ELSE FindNewestLoop(list, k + 1, found, pos, timestamp)

find_newest_client(list) == FindNewestLoop(list, 1, FALSE, 0, 0)

find_oldest_client(list) == FindOldestLoop(list, 1, FALSE, 0, 0)

\* the descriptor accept returns: the lowest one that is not open
LowestFree(open) ==
    CHOOSE fd \in (g_tcp_sockfd + 1)..FD_SETSIZE :
        /\ fd \notin open
        /\ \A other \in (g_tcp_sockfd + 1)..(fd - 1) : other \in open

\* the results of accept: an error, a descriptor, or a descriptor that does
\* not fit an fd_set
AcceptResults(open) == {-1, LowestFree(open), FD_SETSIZE}

\* a close that also closes the listening socket
close_fd_listener(open, fd) == open \ {fd, g_tcp_sockfd}

\* close(fd): the open descriptors after it
close_fd(open, fd) == open \ {fd}

\* a handle_tcp_connect that hands the kicked-out client's buffer, fill
\* length and direction on to the accepted connection
handle_tcp_connect_reuse(list, open, rv, mem, t) ==
    IF rv = -1 \/ rv >= FD_SETSIZE
    THEN [list |-> list, open |-> open, slot |-> 0, kicked |-> -1, exit |-> FALSE,
          cause |-> "none"]
    ELSE IF Len(list) >= MAX_NR_CLIENTS
    THEN IF find_oldest_client(list) = 0
         THEN [list |-> list, open |-> open \cup {rv}, slot |-> 0, kicked |-> -1,
               exit |-> TRUE, cause |-> "no oldest client"]
         ELSE [list |-> [list EXCEPT ![find_oldest_client(list)] =
                            [@ EXCEPT !.timestamp = t, !.sockfd = rv]],
               open |-> close_fd(open \cup {rv}, list[find_oldest_client(list)].sockfd),
               slot |-> find_oldest_client(list),
               kicked |-> list[find_oldest_client(list)].timestamp,
               exit |-> FALSE, cause |-> "none"]
    ELSE IF ~mem
    THEN [list |-> list, open |-> open \cup {rv}, slot |-> 0, kicked |-> -1,
          exit |-> TRUE, cause |-> "allocate"]
    ELSE [list |-> Append(list, NewClient(rv, t)), open |-> open \cup {rv},
          slot |-> Len(list) + 1, kicked |-> -1, exit |-> FALSE, cause |-> "none"]

\* a handle_tcp_connect that appends a client for every accepted
\* connection, whatever the length of the list
handle_tcp_connect_grow(list, open, rv, mem, t) ==
    IF rv = -1 \/ rv >= FD_SETSIZE
    THEN [list |-> list, open |-> open, slot |-> 0, kicked |-> -1, exit |-> FALSE,
          cause |-> "none"]
    ELSE IF ~mem
    THEN [list |-> list, open |-> open \cup {rv}, slot |-> 0, kicked |-> -1,
          exit |-> TRUE, cause |-> "allocate"]
    ELSE [list |-> Append(list, NewClient(rv, t)), open |-> open \cup {rv},
          slot |-> Len(list) + 1, kicked |-> -1, exit |-> FALSE, cause |-> "none"]

\* handle_tcp_connect with accept returning rv at time t, mem saying whether
\* allocate() returns memory: the client list and the open descriptors
\* after it, the slot filled (0 for none), the timestamp of the client that
\* was kicked out (-1 for none), whether the process exits and why
handle_tcp_connect(list, open, rv, mem, t) ==
    IF rv = -1
    THEN [list |-> list, open |-> open, slot |-> 0, kicked |-> -1, exit |-> FALSE,
          cause |-> "none"]
    ELSE IF rv >= FD_SETSIZE
    THEN [list |-> list, open |-> open, slot |-> 0, kicked |-> -1, exit |-> FALSE,
          cause |-> "none"]
    ELSE IF Len(list) >= MAX_NR_CLIENTS
    THEN IF find_oldest_client(list) = 0
         THEN [list |-> list, open |-> open \cup {rv}, slot |-> 0, kicked |-> -1,
               exit |-> TRUE, cause |-> "no oldest client"]
         ELSE [list |-> [list EXCEPT ![find_oldest_client(list)] = NewClient(rv, t)],
               open |-> close_fd(open \cup {rv}, list[find_oldest_client(list)].sockfd),
               slot |-> find_oldest_client(list),
               kicked |-> list[find_oldest_client(list)].timestamp,
               exit |-> FALSE, cause |-> "none"]
    ELSE IF ~mem
    THEN [list |-> list, open |-> open \cup {rv}, slot |-> 0, kicked |-> -1,
          exit |-> TRUE, cause |-> "allocate"]
    ELSE [list |-> Append(list, NewClient(rv, t)), open |-> open \cup {rv},
          slot |-> Len(list) + 1, kicked |-> -1, exit |-> FALSE, cause |-> "none"]

\* close(client->sockfd); client->sockfd = -1
Closed(client) == [client EXCEPT !.sockfd = -1]

\* a read that always asks for a whole buffer
ReadCountWhole(client) == MAX_PACKET_SIZE

\* the count of the read in handle_tcp_client_read
ReadCount(client) == MAX_PACKET_SIZE - client.size

\* what read can return: -1, 0, or between 1 and count bytes
ReadInputs(client) ==
    {[rv |-> -1, data |-> <<>>], [rv |-> 0, data |-> <<>>]}
    \cup {[rv |-> Len(data), data |-> data] :
            data \in UNION {[1..n -> PacketBytes] : n \in 1..ReadCount(client)}}

\* the client after the engine ran on its complete packet
AfterSnmp(client, result) ==
    IF snmp(client, result).ret = -1 THEN Closed([client EXCEPT !.calls = @ + 1])
    ELSE IF result = 0
         THEN Closed([snmp(client, result).client EXCEPT !.calls = @ + 1])
    ELSE [snmp(client, result).client EXCEPT !.calls = @ + 1, !.outgoing = 1]

\* the client after read returned the bytes of data at time t
AfterRead(client, data, t) ==
    [client EXCEPT !.timestamp = t,
                   !.size = @ + Len(data),
                   !.packet = SubSeq(@, 1, client.size) \o data,
                   !.arrived = @ \o data]

\* handle_tcp_client_read invoking the engine after every read
handle_tcp_client_read_eager(client, input, result, t) ==
    IF input.rv = -1 \/ input.rv = 0
    THEN [client |-> Closed(client), complete |-> 0, engine |-> FALSE]
    ELSE CHOOSE res \in
            {IF snmp_packet_complete(c.packet, c.size) = -1
             THEN [client |-> Closed(c), complete |-> -1, engine |-> FALSE]
             ELSE [client |-> AfterSnmp([c EXCEPT !.outgoing = 0], result),
                   complete |-> snmp_packet_complete(c.packet, c.size),
                   engine |-> TRUE] :
                c \in {AfterRead(client, input.data, t)}} : TRUE

\* handle_tcp_client_read with read returning input, the engine's outcome
\* result and the time t: the client after it, what snmp_packet_complete
\* returned (0 when it was not called) and whether the engine was invoked
handle_tcp_client_read(client, input, result, t) ==
    IF input.rv = -1 \/ input.rv = 0
    THEN [client |-> Closed(client), complete |-> 0, engine |-> FALSE]
    ELSE CHOOSE res \in
            {IF snmp_packet_complete(c.packet, c.size) = -1
             THEN [client |-> Closed(c), complete |-> -1, engine |-> FALSE]
             ELSE IF snmp_packet_complete(c.packet, c.size) = 0
             THEN [client |-> c, complete |-> 0, engine |-> FALSE]
             ELSE [client |-> AfterSnmp([c EXCEPT !.outgoing = 0], result),
                   complete |-> 1, engine |-> TRUE] :
                c \in {AfterRead(client, input.data, t)}} : TRUE

\* what send can return: -1, a short count, or the whole size
SendResults(client) ==
    {-1, client.size} \cup (IF client.size > 0 THEN {client.size - 1} ELSE {})

\* handle_tcp_client_write that takes a short send for a whole one
handle_tcp_client_write_short(client, rv) ==
    IF rv = -1 THEN Closed(client)
    ELSE [client EXCEPT !.size = 0, !.outgoing = 0, !.packet = <<>>,
                        !.arrived = <<>>, !.calls = 0]

\* a handle_tcp_client_write that leaves the response staged when send
\* fails or is short, to try again in a later pass
handle_tcp_client_write_retry(client, rv) ==
    IF rv = -1 \/ rv # client.size THEN client
    ELSE [client EXCEPT !.size = 0, !.outgoing = 0, !.packet = <<>>,
                        !.arrived = <<>>, !.calls = 0]

\* handle_tcp_client_write with send returning rv
handle_tcp_client_write(client, rv) ==
    IF rv = -1 \/ rv # client.size THEN Closed(client)
    ELSE [client EXCEPT !.size = 0, !.outgoing = 0, !.packet = <<>>,
                        !.arrived = <<>>, !.calls = 0]

\* the descriptors main puts into rfds and wfds before select
ReadSet(list) ==
    {g_udp_sockfd, g_tcp_sockfd} \cup {list[k].sockfd : k \in {j \in 1..Len(list) : list[j].outgoing = 0}}

WriteSet(list) == {list[k].sockfd : k \in {j \in 1..Len(list) : list[j].outgoing # 0}}

\* a client loop that reads from every client that is not ready to be sent to
tcp_client_op_unguarded(client, rd, wr) ==
    IF client.sockfd \in wr THEN "write" ELSE "read"

\* the handler the client loop of main calls for a client
tcp_client_op(client, rd, wr) ==
    IF client.outgoing # 0
    THEN (IF client.sockfd \in wr THEN "write" ELSE "skip")
    ELSE (IF client.sockfd \in rd THEN "read" ELSE "skip")

\* a compaction loop that goes on after the client it removed
RECURSIVE CompactLoopOn(_, _)
CompactLoopOn(list, k) ==
    IF k > Len(list) THEN list
    ELSE IF list[k].sockfd = -1
         THEN (IF k < Len(list)
               THEN CompactLoopOn(SubSeq(list, 1, k - 1) \o SubSeq(list, k + 1, Len(list)),
                                  k + 1)
               ELSE SubSeq(list, 1, Len(list) - 1))
    ELSE CompactLoopOn(list, k + 1)

\* the compaction loop of main from position k on (k counts from 1)
RECURSIVE CompactLoop(_, _)
CompactLoop(list, k) ==
    IF k > Len(list) THEN list
    ELSE IF list[k].sockfd = -1
         THEN (IF k < Len(list)
               THEN CompactLoop(SubSeq(list, 1, k - 1) \o SubSeq(list, k + 1, Len(list)), 1)
               ELSE SubSeq(list, 1, Len(list) - 1))
    ELSE CompactLoop(list, k + 1)

\* the number of free() calls of the compaction loop from position k on:
\* the record is freed only inside "if (i < g_tcp_client_list_length)"
RECURSIVE CompactFrees(_, _)
CompactFrees(list, k) ==
    IF k > Len(list) THEN 0
    ELSE IF list[k].sockfd = -1
         THEN (IF k < Len(list)
               THEN 1 + CompactFrees(SubSeq(list, 1, k - 1) \o
                                     SubSeq(list, k + 1, Len(list)), 1)
               ELSE 0)
    ELSE CompactFrees(list, k + 1)

\* a handle_udp_client that answers whatever the engine returned
handle_udp_client_always(client, rv, datagram, from, result, t) ==
    IF rv = -1 THEN [client |-> client, engine |-> FALSE, sent |-> <<>>]
    ELSE CHOOSE res \in
            {[client |-> [snmp(c, result).client EXCEPT !.outgoing = 1],
              engine |-> TRUE,
              sent |-> <<[to |-> from, size |-> snmp(c, result).client.size]>>] :
                c \in {[client EXCEPT !.timestamp = t, !.sockfd = g_udp_sockfd,
                                      !.size = Len(datagram), !.packet = datagram,
                                      !.outgoing = 0]}} : TRUE

\* handle_udp_client with recvfrom returning the datagram of the peer from
\* (or -1) at time t: the client after it, whether the engine was invoked,
\* and the datagrams handed to sendto
handle_udp_client(client, rv, datagram, from, result, t) ==
    IF rv = -1 THEN [client |-> client, engine |-> FALSE, sent |-> <<>>]
    ELSE CHOOSE res \in
            {IF snmp(c, result).ret = -1
             THEN [client |-> c, engine |-> TRUE, sent |-> <<>>]
             ELSE IF snmp(c, result).client.size = 0
             THEN [client |-> snmp(c, result).client, engine |-> TRUE, sent |-> <<>>]
             ELSE [client |-> [snmp(c, result).client EXCEPT !.outgoing = 1],
                   engine |-> TRUE,
                   sent |-> <<[to |-> from, size |-> snmp(c, result).client.size]>>] :
                c \in {[client EXCEPT !.timestamp = t, !.sockfd = g_udp_sockfd,
                                      !.size = Len(datagram), !.packet = datagram,
                                      !.outgoing = 0]}} : TRUE

UdpDatagrams == {<<BER_TYPE_SEQUENCE, 1, 1>>}

\* the peers datagrams come from
UdpPeers == {"peer1", "peer2"}

\* select returned -1 and the signal handler ran or not, with the check of
\* g_quit left out
select_failed_fatal(quit) == "exit"

\* select returned -1: the loop is left if g_quit is set, the process
\* exits otherwise
select_failed(quit) == IF quit # 0 THEN "stopped" ELSE "exit"

NoEvent == [op |-> "none", slot |-> 0, before |-> 0, rv |-> 0, complete |-> 0,
            engine |-> FALSE, result |-> 0, kicked |-> -1, cause |-> "none",
            freed |-> 0, lost |-> 0]

NoUdpEvent == [op |-> "none", rv |-> 0, from |-> "", engine |-> FALSE, result |-> 0,
               sent |-> <<>>]

---------------------------------------------------------------------------
(* The inputs of the OID functions.                                        *)

\* longest OID drawn for the comparisons
MaxCmpLen == 2

\* sub-identifiers around the sign bit of the 32-bit range
SubidSamples == {U32(0), U32(1), <<32768, 0>>, UINT_MAX}

RECURSIVE SeqsUpTo(_, _)
SeqsUpTo(S, n) ==
    IF n = 0 THEN {<<>>}
    ELSE LET shorter == SeqsUpTo(S, n - 1)
         IN  shorter \cup {Append(q, x) : q \in {t \in shorter : Len(t) = n - 1}, x \in S}

CmpOids == SeqsUpTo(SubidSamples, MaxCmpLen)

\* n copies of x
Repeat(x, n) == [i \in 1..n |-> x]

\* OIDs as a request may carry them: a first pair that the one-octet rule
\* allows, then up to MAX_NR_SUBIDS - 2 sub-identifiers of any 32-bit value
ReqHeads == {<<U32(1), U32(3)>>, <<U32(0), U32(0)>>, <<U32(2), U32(175)>>}

ReqTails ==
    SeqsUpTo({U32(0), U32(127), U32(2021), <<32767, 65535>>, <<32768, 0>>, UINT_MAX}, 2)
    \cup {Repeat(U32(1), MAX_NR_SUBIDS - 2),
          Repeat(<<32767, 65535>>, MAX_NR_SUBIDS - 3),
          Repeat(UINT_MAX, MAX_NR_SUBIDS - 3),
          Repeat(UINT_MAX, MAX_NR_SUBIDS - 2)}

ReqOids == {h \o t : h \in ReqHeads, t \in ReqTails}

\* texts handed to oid_aton
AtonTexts ==
    { <<>>,
      <<".", "1">>,
      <<".", "1", ".", "3">>,
      <<".", "0", ".", "0">>,
      <<".", "1", ".", "3", ".", "6", ".", "1", ".", "4", ".", "1">>,
      <<"1", ".", "3">>,
      <<".", ".", "1", ".", "3">>,
      <<".", "1", ".", ".", "3">>,
      <<".", "1", ".", "3", ".">>,
      <<".", "1", ".", "x">>,
      <<".", "1", ".", "3", "x">>,
      <<".", "1", ".", "-", "3">>,
      <<".", "1", ".", "+", "3">>,
      <<".", "1", ".", " ", "3">>,
      <<".", "1", ".", "0", "x", "1", "0">>,
      <<".", "1", ".", "0", "1", "7">>,
      <<".", "0", "6", ".", "0", "1", "7">>,
      <<".", "7", ".", "0">>,
      <<".", "2", ".", "1", "7", "5">>,
      <<".", "2", ".", "1", "7", "6">>,
      <<".", "1", ".", "3", ".", "4", "2", "9", "4", "9", "6", "7", "2", "9", "5">>,
      <<".", "4", "2", "9", "4", "9", "6", "7", "3", "0", ".", "0">>,
      <<".", "1", ".", "4", "2", "9", "4", "9", "6", "7", "2", "9", "7">>,
      <<".", "1", ".", "9", "9", "9", "9", "9", "9", "9", "9", "9", "9",
        "9", "9", "9", "9", "9", "9", "9", "9", "9", "9", "9">> }
    \cup {oid_ntoa(Repeat(U32(1), n)) : n \in {MAX_NR_SUBIDS - 1, MAX_NR_SUBIDS, MAX_NR_SUBIDS + 1}}

NoCall ==
    [op |-> "none", a |-> <<>>, b |-> <<>>, c |-> <<>>, text |-> <<>>,
     aa |-> 0, ab |-> 0, ba |-> 0, bc |-> 0, ac |-> 0, res |-> AtonNull]

\* interface addresses: none, and addresses on both sides of the sign bit
\* of their difference (0.0.0.1, 10.0.0.1, 96.0.0.0, 144.0.0.0)
AddrSamples == {<<0, 0>>, <<0, 1>>, <<2560, 1>>, <<24576, 0>>, <<36864, 0>>}

\* the calls of allocate() that may fail: none, one in the system group,
\* one further on
AllocFailSamples == {0, 3, 30}

\* probes of mib_findnext
ProbeOids ==
    { <<>>,
      Oid(<<1, 3>>),
      Oid(<<1, 3, 6, 1, 2, 1, 1, 1>>),
      Oid(<<1, 3, 6, 1, 2, 1, 1, 7, 0>>),
      Oid(<<1, 3, 6, 1, 2, 1, 2, 2, 1, 1, 1>>),
      Oid(<<1, 3, 6, 1, 2, 1, 4, 20, 1, 1, 0, 0, 0, 1>>),
      Oid(<<1, 3, 6, 1, 2, 1, 4, 20, 1, 1, 96>>),
      Oid(<<1, 3, 6, 1, 2, 1, 4, 20>>) \o <<UINT_MAX>>,
      Oid(<<1, 3, 6, 1, 4, 1, 2021, 11, 60, 0>>),
      Oid(<<1, 3, 6, 1, 4, 1, 2021, 11, 60>>) \o <<<<32768, 0>>>>,
      Oid(<<1, 4>>) }

\* probes of mib_find: the empty OID, prefixes of entries, an entry, and
\* OIDs that no entry starts with
FindProbes ==
    { <<>>,
      Oid(<<1, 3, 6, 1, 2, 1, 1, 1>>),
      Oid(<<1, 3, 6, 1, 2, 1, 2, 2, 1, 1>>),
      Oid(<<1, 3, 6, 1, 2, 1, 4, 20, 1, 2>>),
      Oid(<<1, 3, 6, 1, 4, 1, 2021, 11, 60, 0>>),
      Oid(<<1, 3, 6, 1, 4, 1, 2021, 11, 60, 0, 0>>),
      Oid(<<1, 4>>) }

NoStatus == [built |-> FALSE, ret |-> 0, overflow |-> FALSE, failed |-> 0]
\* cursor is *pos before the call; again is the result of the same call
\* made once more with the cursor the first one left
NoFind == [op |-> "none", oid |-> <<>>, found |-> FALSE, pos |-> 0, cursor |-> 0,
           again |-> [found |-> FALSE, pos |-> 0]]

\* written is buffer - data->buffer at the end of the encoder, null says
\* that the argument was a NULL pointer
NoBer == [op |-> "none", type |-> 0, value |-> <<>>, string |-> <<>>, ret |-> 0,
          data |-> AllocData(BER_TYPE_NULL), set |-> FALSE, written |-> 0,
          null |-> FALSE]

NoStart == [phase |-> "none", family |-> "", opt_p |-> 0, opt_P |-> 0,
            g_udp_port |-> 0, g_tcp_port |-> 0, udp_bound |-> 0, tcp_bound |-> 0,
            msg_udp |-> 0, msg_tcp |-> 0]

NoTick == [tv_last |-> <<0, 0>>, tv_now |-> <<0, 0>>, tv_sleep |-> <<0, 0>>,
           ticks |-> 0, got |-> FALSE, passed |-> FALSE, before |-> <<0, 0>>]

\* no function called, main past its start
CallIdle ==
    /\ call = NoCall
    /\ ber = NoBer
    /\ start = NoStart
    /\ tick = NoTick

\* the MIB variables before any build
MibIdle ==
    /\ g_interface_list_length = 0
    /\ g_disk_list_length = 0
    /\ netinfo_in_addr = <<>>
    /\ alloc_fail = 0
    /\ g_mib = <<>>
    /\ mib_status = NoStatus
    /\ find = NoFind

\* the transport loop before its first pass
NetIdle ==
    /\ pc = "loop"
    /\ g_quit = 0
    /\ g_tcp_client_list = <<>>
    /\ g_udp_client = NewClient(0, 0)
    /\ open_fds = {g_udp_sockfd, g_tcp_sockfd}
    /\ rfds = {}
    /\ wfds = {}
    /\ pos_i = 0
    /\ now = 0
    /\ ev = NoEvent
    /\ handled = {}
    /\ udp_ev = NoUdpEvent

---------------------------------------------------------------------------
(* The specification of the OID functions: one call from the idle state.   *)

InitOid == CallIdle /\ MibIdle /\ NetIdle

\* oid_cmp on the pairs of three OIDs
CallOidCmp ==
    /\ call.op = "none"
    /\ \E a \in CmpOids, b \in CmpOids, c \in CmpOids :
          call' = [NoCall EXCEPT !.op = "oid_cmp", !.a = a, !.b = b, !.c = c,
                                 !.aa = oid_cmp(a, a), !.ab = oid_cmp(a, b),
                                 !.ba = oid_cmp(b, a), !.bc = oid_cmp(b, c),
                                 !.ac = oid_cmp(a, c)]
    /\ UNCHANGED <<ber, start, tick, mibVars, netVars>>

\* oid_aton(oid_ntoa(oid))
CallOidNtoaAton ==
    /\ call.op = "none"
    /\ \E oid \in ReqOids :
          call' = [NoCall EXCEPT !.op = "oid_ntoa_aton", !.a = oid,
                                 !.text = oid_ntoa(oid),
                                 !.res = oid_aton(oid_ntoa(oid))]
    /\ UNCHANGED <<ber, start, tick, mibVars, netVars>>

\* oid_aton(text)
CallOidAton ==
    /\ call.op = "none"
    /\ \E text \in AtonTexts :
          call' = [NoCall EXCEPT !.op = "oid_aton", !.text = text,
                                 !.res = oid_aton(text)]
    /\ UNCHANGED <<ber, start, tick, mibVars, netVars>>

NextOid == CallOidCmp \/ CallOidNtoaAton \/ CallOidAton

SpecOid == InitOid /\ [][NextOid]_vars

---------------------------------------------------------------------------
(* The specification of the MIB: mib_build on a configuration, then one   *)
(* lookup in the table it left.                                            *)

\* The configuration mib_build finds: the interface and disk lists, the
\* addresses in netinfo (which mib_build does not initialise) and the
\* allocation that fails, if any.
InitMib ==
    /\ CallIdle
    /\ g_interface_list_length \in 0..MAX_NR_INTERFACES
    /\ g_disk_list_length \in 0..MAX_NR_DISKS
    /\ netinfo_in_addr \in [1..g_interface_list_length -> AddrSamples]
    /\ alloc_fail \in AllocFailSamples
    /\ g_mib = <<>>
    /\ mib_status = NoStatus
    /\ find = NoFind
    /\ NetIdle

MibBuild ==
    /\ ~mib_status.built
    /\ \E sorted \in sort_addr(netinfo_in_addr, g_interface_list_length) :
          \E r \in {mib_build(g_interface_list_length, g_disk_list_length, sorted,
                              netinfo_in_addr, alloc_fail)} :
              /\ g_mib' = r.mib
              /\ mib_status' = [built |-> TRUE, ret |-> r.ret, overflow |-> r.overflow,
                                failed |-> r.failed]
    /\ UNCHANGED <<callVars, netVars, g_interface_list_length, g_disk_list_length,
                   netinfo_in_addr, alloc_fail, find>>

MibFindNext ==
    /\ mib_status.built
    /\ find.op = "none"
    /\ \E oid \in ProbeOids :
          \E r \in {mib_findnext(g_mib, oid)} :
              find' = [NoFind EXCEPT !.op = "mib_findnext", !.oid = oid,
                                      !.found = r.found, !.pos = r.pos]
    /\ UNCHANGED <<callVars, netVars, g_interface_list_length, g_disk_list_length,
                   netinfo_in_addr, alloc_fail, g_mib, mib_status>>

\* the cursors of a lookup: both ends of the table and two positions inside
Cursors(mib) == {0, Len(mib) \div 3, Len(mib) - 1, Len(mib)} \cap 0..Len(mib)

\* mib_find on the table, and the same call once more
MibFind ==
    /\ mib_status.built
    /\ find.op = "none"
    /\ \E oid \in FindProbes, cursor \in Cursors(g_mib) :
          \E r \in {mib_find(g_mib, oid, cursor)} :
              find' = [NoFind EXCEPT !.op = "mib_find", !.oid = oid, !.cursor = cursor,
                                      !.found = r.found, !.pos = r.pos,
                                      !.again = mib_find(g_mib, oid, r.pos)]
    /\ UNCHANGED <<callVars, netVars, g_interface_list_length, g_disk_list_length,
                   netinfo_in_addr, alloc_fail, g_mib, mib_status>>

NextMib == MibBuild \/ MibFindNext \/ MibFind

SpecMib == InitMib /\ [][NextMib]_vars

---------------------------------------------------------------------------
(* The specification of the BER encoders: one call from the idle state.    *)

\* limbs around the boundaries of the encoders
LimbSamples == {0, 1, 127, 128, 255, 256, 32767, 32768, 65407, 65408, 65535}

\* 32-bit values
IntSamples == {<<hi, lo>> : hi \in LimbSamples, lo \in LimbSamples}

\* 64-bit values
Limb64Samples == {0, 127, 128, 32767, 32768, 65535}
Int64Samples ==
    {<<a, b, c, d>> : a \in Limb64Samples, b \in Limb64Samples,
                      c \in Limb64Samples, d \in Limb64Samples}

\* string lengths around the boundaries of the length forms
StringLengths == {0, 1, 127, 128, 255, 256, 257, 32763, 32764, 65535, 65536, 65537}

\* a string of len octets, none of them 0
StringOf(len, first) == [null |-> FALSE, text |-> [k \in 1..len |-> first + (k % 7)]]

InitBer == CallIdle /\ MibIdle /\ NetIdle

CallEncodeInteger ==
    /\ ber.op = "none"
    /\ \E value \in IntSamples :
          \E r \in {encode_integer(AllocData(BER_TYPE_INTEGER), value)} :
              ber' = [NoBer EXCEPT !.op = "encode_integer", !.type = BER_TYPE_INTEGER,
                                  !.value = value, !.ret = r.ret, !.data = r.data,
                                  !.written = r.written]
    /\ UNCHANGED <<call, start, tick, mibVars, netVars>>

CallEncodeUnsigned ==
    /\ ber.op = "none"
    /\ \E value \in IntSamples,
          type \in {BER_TYPE_COUNTER, BER_TYPE_GAUGE, BER_TYPE_TIME_TICKS} :
          \E r \in {encode_unsigned(AllocData(type), type, value)} :
              ber' = [NoBer EXCEPT !.op = "encode_unsigned", !.type = type,
                                  !.value = value, !.ret = r.ret, !.data = r.data,
                                  !.written = r.written]
    /\ UNCHANGED <<call, start, tick, mibVars, netVars>>

CallEncodeUnsigned64 ==
    /\ ber.op = "none"
    /\ \E value \in Int64Samples :
          \E r \in {encode_unsigned64(AllocData(BER_TYPE_COUNTER64),
                                      BER_TYPE_COUNTER64, value)} :
              ber' = [NoBer EXCEPT !.op = "encode_unsigned64",
                                  !.type = BER_TYPE_COUNTER64,
                                  !.value = value, !.ret = r.ret, !.data = r.data,
                                  !.written = r.written]
    /\ UNCHANGED <<call, start, tick, mibVars, netVars>>

\* encode_byte_array as data_set calls it for a new entry, and what
\* mib_data_set makes of the result
CallEncodeByteArray ==
    /\ ber.op = "none"
    /\ \E len \in StringLengths, first \in {1, 65} :
          \E string \in {StringOf(len, first)} :
            \E r \in {encode_byte_array(AllocData(BER_TYPE_OCTET_STRING), string, len, TRUE)} :
              ber' = [NoBer EXCEPT !.op = "encode_byte_array",
                                  !.type = BER_TYPE_OCTET_STRING,
                                  !.string = string.text, !.ret = r.ret, !.data = r.data,
                                  !.written = r.written,
                                  !.set = mib_data_set(<<NewEntry(m_system_oid,
                                                                  BER_TYPE_OCTET_STRING, 0)>>,
                                                       BER_TYPE_OCTET_STRING, string).ok]
    /\ UNCHANGED <<call, start, tick, mibVars, netVars>>

\* the text of the greatest sub-identifier
BigSubidText == <<".", "4", "2", "9", "4", "9", "6", "7", "2", "9", "5">>

RECURSIVE RepeatText(_, _)
RepeatText(text, n) == IF n = 0 THEN <<>> ELSE text \o RepeatText(text, n - 1)

\* initial values of the type OID: the vendor, two sub-identifiers, one
\* sub-identifier of each length, MAX_NR_SUBIDS sub-identifiers of which 18
\* are the greatest, and one sub-identifier more
OidTexts ==
    { VendorText,
      <<".", "1", ".", "3">>,
      <<".", "1", ".", "3", ".", "1", "2", "7", ".", "1", "2", "8",
        ".", "1", "6", "3", "8", "4", ".", "2", "0", "9", "7", "1", "5", "2",
        ".", "2", "6", "8", "4", "3", "5", "4", "5", "6">>,
      <<".", "2", ".", "5">> \o RepeatText(BigSubidText, MAX_NR_SUBIDS - 2),
      <<".", "2", ".", "5">> \o RepeatText(BigSubidText, MAX_NR_SUBIDS - 1) }

\* initial values handed to data_set for a type
ArgsOf(type) ==
    CASE type = BER_TYPE_OCTET_STRING ->
            {[ArgValue EXCEPT !.text = StringOf(len, 65).text] :
                len \in {0, 1, 4, 5, 127, 128, 255, 256, 65535, 65536}}
            \cup {[ArgValue EXCEPT !.null = TRUE]}
      [] type = BER_TYPE_OID ->
            {ArgText(text) : text \in OidTexts} \cup {[ArgValue EXCEPT !.null = TRUE]}
      [] type = BER_TYPE_COUNTER64 ->
            {[ArgValue EXCEPT !.value64 = v] :
                v \in {<<a, 0, 0, d>> : a \in Limb64Samples, d \in Limb64Samples}}
      [] type = BER_TYPE_NULL -> {ArgValue}
      [] OTHER ->
            {[ArgValue EXCEPT !.value = v] :
                v \in {<<hi, lo>> : hi \in {0, 127, 128, 65535}, lo \in {0, 127, 128, 65535}}}

\* data_alloc alone, as for an entry that mib_alloc_entry adds and nothing
\* sets
CallDataAlloc ==
    /\ ber.op = "none"
    /\ \E type \in DataTypes :
          ber' = [NoBer EXCEPT !.op = "data_alloc", !.type = type,
                              !.ret = data_alloc(type, 1, 0), !.data = AllocData(type)]
    /\ UNCHANGED <<call, start, tick, mibVars, netVars>>

\* data_alloc, then data_set with an initial value
CallDataSet ==
    /\ ber.op = "none"
    /\ \E type \in DataTypes :
          \E arg \in ArgsOf(type) :
            \E r \in {data_set(AllocData(type), type, arg)} :
              ber' = [NoBer EXCEPT !.op = "data_set", !.type = type,
                                  !.value = IF type = BER_TYPE_COUNTER64
                                            THEN arg.value64 ELSE arg.value,
                                  !.string = arg.text, !.null = arg.null,
                                  !.ret = r.ret, !.data = r.data,
                                  !.written = r.written]
    /\ UNCHANGED <<call, start, tick, mibVars, netVars>>

NextBer ==
    \/ CallEncodeInteger
    \/ CallEncodeUnsigned
    \/ CallEncodeUnsigned64
    \/ CallEncodeByteArray
    \/ CallDataAlloc
    \/ CallDataSet

SpecBer == InitBer /\ [][NextBer]_vars

---------------------------------------------------------------------------
(* The specification of the timers of main: tv_last, tv_now and tv_sleep   *)
(* over the passes of the loop.  A struct timeval is <<tv_sec, tv_usec>>.  *)
(* No handler of the loop reads or writes the three.                       *)

\* times gettimeofday may return
TimeSamples == {<<sec, usec>> : sec \in {0, 1, 2, 200000},
                                usec \in {0, 9999, 10000, 990000, 999999}}

\* the conversion of an integer to float (24 bits of mantissa, round to
\* nearest, ties to even); the values here are below 2^25
ToFloat(x) ==
    IF x < 16777216 \/ x % 2 = 0 THEN x
    ELSE IF ((x - 1) \div 2) % 2 = 0 THEN x - 1 ELSE x + 1

\* a ticks_since that counts whole seconds only
ticks_since_seconds(tv_last, got, tv_now) ==
    IF ~got THEN -1
    ELSE IF tv_now[1] < tv_last[1] \/ (tv_now[1] = tv_last[1] /\ tv_now[2] < tv_last[2])
    THEN -1
    ELSE ToFloat((tv_now[1] - tv_last[1]) * 100)

\* ticks_since: got says whether gettimeofday returned 0, tv_now is the time
\* it stored.  The sum is below INT_MAX for the times above.
ticks_since(tv_last, got, tv_now) ==
    IF ~got THEN -1
    ELSE IF tv_now[1] < tv_last[1] \/ (tv_now[1] = tv_last[1] /\ tv_now[2] < tv_last[2])
    THEN -1
    ELSE ToFloat((tv_now[1] - 1 - tv_last[1]) * 100
                 + (tv_now[2] + 1000000 - tv_last[2]) \div 10000)

\* tv_sleep for a number of ticks
SleepFor(n) == <<n \div 100, (n % 100) * 10000>>

\* main before the loop: tv_last and tv_sleep are set, tv_now is not
\* initialised
InitTick ==
    /\ call = NoCall
    /\ ber = NoBer
    /\ start = NoStart
    /\ \E got \in BOOLEAN, t \in TimeSamples, junk \in TimeSamples :
          tick = [NoTick EXCEPT !.tv_last = IF got THEN t ELSE <<0, 0>>,
                                !.tv_sleep = IF got THEN SleepFor(g_timeout) ELSE <<0, 0>>,
                                !.tv_now = junk]
    /\ MibIdle
    /\ NetIdle

\* one pass of the loop: select returns, then the ticks and the next sleep
Pass ==
    /\ \E got \in BOOLEAN, t \in TimeSamples :
          \E tv_now \in {IF got THEN t ELSE tick.tv_now} :
            \E ticks \in {ticks_since(tick.tv_last, got, tv_now)} :
              tick' = [tv_last |-> IF ticks < 0 \/ ticks >= g_timeout
                                   THEN tv_now ELSE tick.tv_last,
                       tv_now |-> tv_now,
                       tv_sleep |-> IF ticks < 0 \/ ticks >= g_timeout
                                    THEN SleepFor(g_timeout)
                                    ELSE SleepFor(g_timeout - ticks),
                       ticks |-> ticks,
                       got |-> got,
                       passed |-> TRUE,
                       before |-> tick.tv_last]
    /\ UNCHANGED <<call, ber, start, mibVars, netVars>>

NextTick == Pass

SpecTick == InitTick /\ [][NextTick]_vars

---------------------------------------------------------------------------
(* The specification of the start of main: the options, then the sockets.  *)

\* what atoi makes of the argument of -p and -P; 0 also stands for an
\* option that is not given
PortOptions == {0, 161, 162, 1161, 65535}

\* the assignment of an int to an in_port_t
in_port_t(n) == n % 65536

\* the defaults of the ports, after the options
default_ports(opt_p, opt_P) ==
    LET udp == IF in_port_t(opt_p) = 0 THEN 161 ELSE in_port_t(opt_p)
    IN  [udp |-> udp, tcp |-> IF in_port_t(opt_P) = 0 THEN udp ELSE in_port_t(opt_P)]

\* the port in the address the UDP socket is bound to
udp_bind_port(ports) == ports.udp

\* the port in the address the TCP socket is bound to
tcp_bind_port(ports) == ports.udp

InitStart ==
    /\ call = NoCall
    /\ ber = NoBer
    /\ tick = NoTick
    /\ \E family \in {"AF_INET", "AF_INET6"}, opt_p \in PortOptions, opt_P \in PortOptions :
          start = [NoStart EXCEPT !.phase = "args", !.family = family,
                                  !.opt_p = opt_p, !.opt_P = opt_P]
    /\ MibIdle
    /\ NetIdle

\* main from the options to the start message; a bind that fails ends the
\* process
Startup ==
    /\ start.phase = "args"
    /\ \E udp_ok \in BOOLEAN, tcp_ok \in BOOLEAN :
          \E ports \in {default_ports(start.opt_p, start.opt_P)} :
              start' = [start EXCEPT
                           !.g_udp_port = ports.udp,
                           !.g_tcp_port = ports.tcp,
                           !.udp_bound = IF udp_ok THEN udp_bind_port(ports) ELSE 0,
                           !.tcp_bound = IF udp_ok /\ tcp_ok THEN tcp_bind_port(ports) ELSE 0,
                           !.msg_udp = IF udp_ok /\ tcp_ok THEN ports.udp ELSE 0,
                           !.msg_tcp = IF udp_ok /\ tcp_ok THEN ports.tcp ELSE 0,
                           !.phase = IF udp_ok /\ tcp_ok THEN "listening" ELSE "exit"]
    /\ UNCHANGED <<call, ber, tick, mibVars, netVars>>

NextStart == Startup

SpecStart == InitStart /\ [][NextStart]_vars

---------------------------------------------------------------------------
(* The specification of the transport loop: the passes of the while loop   *)
(* of main, one action per handler.                                        *)

Init == CallIdle /\ MibIdle /\ NetIdle

\* handle_signal while main is not in select.  g_quit is read by the loop
\* condition and after a failed select only, so a signal that arrives
\* elsewhere in a pass is taken as arriving at the loop condition that
\* follows.
Signal ==
    /\ pc = "loop"
    /\ g_quit = 0
    /\ g_quit' = 1
    /\ UNCHANGED <<pc, g_tcp_client_list, g_udp_client, open_fds, rfds, wfds, pos_i,
                   now, ev, handled, udp_ev, callVars, mibVars>>

\* while (!g_quit) finds g_quit set: main returns EXIT_OK
Stop ==
    /\ pc = "loop"
    /\ g_quit # 0
    /\ pc' = "stopped"
    /\ UNCHANGED <<g_quit, g_tcp_client_list, g_udp_client, open_fds, rfds, wfds, pos_i,
                   now, ev, handled, udp_ev, callVars, mibVars>>

\* while (!g_quit) finds g_quit clear: a pass begins and main calls select
LoopTest ==
    /\ pc = "loop"
    /\ g_quit = 0
    /\ pc' = "select"
    /\ UNCHANGED <<g_quit, g_tcp_client_list, g_udp_client, open_fds, rfds, wfds, pos_i,
                   now, ev, handled, udp_ev, callVars, mibVars>>

\* select returns the ready descriptors among those main put into the
\* sets, some time later.
Select ==
    /\ pc = "select"
    /\ rfds' \in SUBSET ReadSet(g_tcp_client_list)
    /\ wfds' \in SUBSET WriteSet(g_tcp_client_list)
    /\ now' \in {now} \cup (IF now < MaxTime THEN {now + 1} ELSE {})
    /\ pc' = "udp"
    /\ ev' = NoEvent
    /\ UNCHANGED <<g_quit, g_tcp_client_list, g_udp_client, open_fds, pos_i,
                   handled, udp_ev, callVars, mibVars>>

\* handle_signal while main is in select: select returns -1 (EINTR) after
\* the handler has set g_quit
SelectInterrupted ==
    /\ pc = "select"
    /\ g_quit = 0
    /\ g_quit' = 1
    /\ pc' = select_failed(g_quit')
    /\ ev' = [NoEvent EXCEPT !.op = "select", !.rv = -1,
                             !.cause = IF pc' = "exit" THEN "select" ELSE "none"]
    /\ UNCHANGED <<g_tcp_client_list, g_udp_client, open_fds, rfds, wfds, pos_i,
                   now, handled, udp_ev, callVars, mibVars>>

\* select returns -1: break when g_quit is set, exit(EXIT_SYSCALL) otherwise
SelectFails ==
    /\ pc = "select"
    /\ pc' = select_failed(g_quit)
    /\ ev' = [NoEvent EXCEPT !.op = "select", !.rv = -1,
                             !.cause = IF pc' = "exit" THEN "select" ELSE "none"]
    /\ UNCHANGED <<g_quit, g_tcp_client_list, g_udp_client, open_fds, rfds, wfds, pos_i,
                   now, handled, udp_ev, callVars, mibVars>>

\* if (FD_ISSET(g_udp_sockfd, &rfds)) handle_udp_client();
\* (A descriptor is tested once in a pass; the sets of the model drop it
\* after the test, the sets of main keep it and do not read it again.)
UdpStep ==
    /\ pc = "udp"
    /\ pc' = "connect"
    /\ \/ /\ g_udp_sockfd \notin rfds
          /\ UNCHANGED <<g_udp_client, udp_ev>>
       \/ /\ g_udp_sockfd \in rfds
          /\ \E datagram \in UdpDatagrams, from \in UdpPeers, rv \in {-1, 0},
                result \in SnmpResults :
                \E r \in {handle_udp_client(g_udp_client, rv, datagram, from, result, now)} :
                    /\ g_udp_client' = r.client
                    /\ udp_ev' = [op |-> "udp", rv |-> rv,
                                  from |-> IF rv = -1 THEN "" ELSE from,
                                  engine |-> r.engine,
                                  result |-> IF r.engine THEN result ELSE 0,
                                  sent |-> r.sent]
    /\ rfds' = rfds \ {g_udp_sockfd}
    /\ UNCHANGED <<g_quit, g_tcp_client_list, open_fds, wfds, pos_i, now, ev,
                   handled, callVars, mibVars>>

\* if (FD_ISSET(g_tcp_sockfd, &rfds)) handle_tcp_connect();
ConnectStep ==
    /\ pc = "connect"
    /\ \/ /\ g_tcp_sockfd \notin rfds
          /\ pc' = "clients"
          /\ UNCHANGED <<g_tcp_client_list, open_fds, ev>>
       \/ /\ g_tcp_sockfd \in rfds
          /\ \E rv \in AcceptResults(open_fds), mem \in BOOLEAN :
                \E r \in {handle_tcp_connect(g_tcp_client_list, open_fds, rv, mem, now)} :
                    /\ g_tcp_client_list' = r.list
                    /\ open_fds' = r.open
                    /\ pc' = IF r.exit THEN "exit" ELSE "clients"
                    /\ ev' = [NoEvent EXCEPT !.op = "connect", !.slot = r.slot,
                                             !.before = Len(g_tcp_client_list),
                                             !.rv = rv, !.kicked = r.kicked,
                                             !.cause = r.cause,
                                             !.lost = IF r.kicked # -1
                                                      THEN g_tcp_client_list[r.slot].size
                                                      ELSE 0]
    /\ pos_i' = 1
    /\ udp_ev' = NoUdpEvent
    /\ rfds' = rfds \ {g_tcp_sockfd}
    /\ UNCHANGED <<g_quit, g_udp_client, wfds, now, handled, callVars, mibVars>>

\* One turn of the client loop of main: the client at i is sent to, read
\* from or left alone.
ClientStep ==
    /\ pc = "clients"
    /\ pos_i <= Len(g_tcp_client_list)
    /\ pos_i' = pos_i + 1
    /\ \E client \in {g_tcp_client_list[pos_i]} :
        \E op \in {tcp_client_op(client, rfds, wfds)} :
          \/ /\ op = "skip"
             /\ UNCHANGED <<g_tcp_client_list, open_fds, ev, handled>>
          \/ /\ op = "write"
             /\ \E rv \in SendResults(client) :
                 \E after \in {handle_tcp_client_write(client, rv)} :
                   /\ g_tcp_client_list' = [g_tcp_client_list EXCEPT ![pos_i] = after]
                   /\ open_fds' = IF after.sockfd = -1
                                   THEN close_fd(open_fds, client.sockfd)
                                   ELSE open_fds
                   /\ ev' = [NoEvent EXCEPT !.op = "write", !.slot = pos_i,
                                            !.before = client.size, !.rv = rv]
             /\ handled' = handled \cup {client.sockfd}
          \/ /\ op = "read"
             /\ \E input \in ReadInputs(client), result \in SnmpResults :
                 \E r \in {handle_tcp_client_read(client, input, result, now)} :
                   /\ g_tcp_client_list' = [g_tcp_client_list EXCEPT ![pos_i] = r.client]
                   /\ open_fds' = IF r.client.sockfd = -1
                                   THEN close_fd(open_fds, client.sockfd)
                                   ELSE open_fds
                   /\ ev' = [NoEvent EXCEPT !.op = "read", !.slot = pos_i,
                                            !.before = client.size, !.rv = input.rv,
                                            !.complete = r.complete, !.engine = r.engine,
                                            !.result = IF r.engine THEN result ELSE 0]
             /\ handled' = handled \cup {client.sockfd}
    /\ rfds' = rfds \ {g_tcp_client_list[pos_i].sockfd}
    /\ wfds' = wfds \ {g_tcp_client_list[pos_i].sockfd}
    /\ UNCHANGED <<pc, g_quit, g_udp_client, now, udp_ev, callVars, mibVars>>

\* The end of a pass: the clients whose sockfd is -1 are removed from the
\* list.  The descriptor sets are not read again before the next pass
\* clears them, and the history of the pass ends here: ev keeps the length
\* of the list and the number of closed clients the compaction found.
Compact ==
    /\ pc = "clients"
    /\ pos_i > Len(g_tcp_client_list)
    /\ g_tcp_client_list' = CompactLoop(g_tcp_client_list, 1)
    /\ pc' = "loop"
    /\ pos_i' = 0
    /\ rfds' = {}
    /\ wfds' = {}
    /\ ev' = [NoEvent EXCEPT !.op = "compact", !.before = Len(g_tcp_client_list),
                             !.rv = Cardinality({k \in 1..Len(g_tcp_client_list) :
                                                    g_tcp_client_list[k].sockfd = -1}),
                             !.freed = CompactFrees(g_tcp_client_list, 1)]
    /\ handled' = {}
    /\ UNCHANGED <<g_quit, g_udp_client, open_fds, now, udp_ev, callVars, mibVars>>

\* the steps of main
Run ==
    \/ Stop
    \/ LoopTest
    \/ Select
    \/ SelectFails
    \/ UdpStep
    \/ ConnectStep
    \/ ClientStep
    \/ Compact

Next == Signal \/ SelectInterrupted \/ Run

Spec == Init /\ [][Next]_vars

\* main keeps running: select returns when a descriptor is ready, when the
\* timeout is over or when a signal interrupts it, and no handler blocks
SpecLive == Spec /\ WF_vars(Run)

\* the descriptors accept can return for a client
ClientFds == (g_tcp_sockfd + 1)..(FD_SETSIZE - 1)

\* select returns while no datagram is waiting on the UDP socket
SelectTcp == Select /\ g_udp_sockfd \notin rfds'

\* select returns with the socket fd ready for writing
SelectWritable(fd) == SelectTcp /\ fd \in wfds'

\* the steps of main while only the TCP sockets have traffic
RunTcp ==
    \/ Stop
    \/ LoopTest
    \/ SelectTcp
    \/ SelectFails
    \/ UdpStep
    \/ ConnectStep
    \/ ClientStep
    \/ Compact

NextTcp == Signal \/ SelectInterrupted \/ RunTcp

\* main keeps running and a socket that main keeps asking select about for
\* writing is reported ready in the end; the UDP socket stays silent, which
\* leaves the UDP client as it is and takes nothing from the TCP clients
SpecFair ==
    /\ Init
    /\ [][NextTcp]_vars
    /\ WF_vars(RunTcp)
    /\ \A fd \in ClientFds : SF_vars(SelectWritable(fd))

---------------------------------------------------------------------------
(* Properties of the OID functions.                                        *)

IsStrictPrefix(a, b) == Len(a) < Len(b) /\ SubSeq(b, 1, Len(a)) = a

\* C5: oid_cmp is a strict total order on OIDs with sub-identifiers anywhere
\* in the unsigned 32-bit range: an OID compares equal to itself, two OIDs
\* compare equal only when they are the same sequence, swapping the arguments
\* negates the result, the order is transitive, and a strict prefix compares
\* less than every OID that extends it.
C5_OidCmpStrictTotalOrder ==
    call.op = "oid_cmp" =>
        /\ call.aa = 0
        /\ (call.ab = 0 => call.a = call.b)
        /\ call.ab = -call.ba
        /\ (call.ab < 0 /\ call.bc < 0 => call.ac < 0)
        /\ (IsStrictPrefix(call.a, call.b) => call.ab = -1)

\* C6: oid_aton(oid_ntoa(oid)) succeeds and returns the same sub-identifier
\* sequence, of the same length, for every OID a request may carry.
C6_NtoaAtonRoundTrip ==
    call.op = "oid_ntoa_aton" => call.res.ok /\ call.res.oid = call.a

\* the end of the run of decimal digits that starts at position p
RECURSIVE DigitsEnd(_, _)
DigitsEnd(str, p) ==
    IF DigitVal(At(str, p)) < 10 THEN DigitsEnd(str, p + 1) ELSE p

\* the groups of a text made of '.' followed by one or more decimal digits
RECURSIVE DottedGroups(_, _, _)
DottedGroups(str, p, groups) ==
    IF p > Len(str) THEN [ok |-> TRUE, groups |-> groups]
    ELSE IF str[p] # "." \/ DigitsEnd(str, p + 1) = p + 1
         THEN [ok |-> FALSE, groups |-> <<>>]
    ELSE DottedGroups(str, DigitsEnd(str, p + 1),
                      Append(groups, SubSeq(str, p + 1, DigitsEnd(str, p + 1) - 1)))

\* the decimal value of a group of digits, 1000 standing for anything above 999
RECURSIVE DecValueCapped(_, _, _)
DecValueCapped(g, i, v) ==
    IF i > Len(g) THEN v
    ELSE DecValueCapped(g, i + 1, Min(1000, v * 10 + DigitVal(g[i])))

WellFormedOidText(str) ==
    LET d == DottedGroups(str, 1, <<>>)
    IN  /\ d.ok
        /\ Len(d.groups) >= 2
        /\ Len(d.groups) <= MAX_NR_SUBIDS
        /\ DecValueCapped(d.groups[1], 1, 0) * 40
             + DecValueCapped(d.groups[2], 1, 0) <= 255

\* C7: oid_aton returns an OID only for a text of 2..MAX_NR_SUBIDS groups,
\* each a '.' followed by one or more decimal digits, whose first pair
\* satisfies subid[0]*40+subid[1] <= 255 without wrap-around; every other
\* text yields a parse failure.
C7_AtonAcceptsOnlyWellFormed ==
    call.op = "oid_aton" => (call.res.ok <=> WellFormedOidText(call.text))

---------------------------------------------------------------------------
(* Properties of the MIB table.                                            *)

\* every adjacent pair of the table is strictly ascending under oid_cmp
Ascending(mib) ==
    \A i \in 1..(Len(mib) - 1) : oid_cmp(mib[i].oid, mib[i + 1].oid) = -1

\* C3: after mib_build succeeds, for every interface count, disk count and
\* assignment of interface addresses, each adjacent pair of entries of the
\* table is strictly ascending under oid_cmp.
C3_BuiltTableStrictlyAscending ==
    (mib_status.built /\ mib_status.ret = 0) => Ascending(g_mib)

\* the positions (from 1) of the entries greater than the OID
Greater(mib, oid) == {k \in 1..Len(mib) : oid_cmp(mib[k].oid, oid) > 0}

\* C4: on a strictly ascending table mib_findnext returns none exactly when
\* no entry is greater than the probe, and otherwise an entry greater than
\* the probe with no entry strictly between the probe and it.
C4_FindNextLeastGreater ==
    (find.op = "mib_findnext" /\ Ascending(g_mib)) =>
        /\ find.found <=> Greater(g_mib, find.oid) # {}
        /\ find.found =>
              /\ find.pos + 1 \in Greater(g_mib, find.oid)
              /\ \A k \in Greater(g_mib, find.oid) :
                    oid_cmp(g_mib[k].oid, g_mib[find.pos + 1].oid) >= 0

\* a lookup in a successfully built ascending table with interfaces, whose
\* probe is an entry of the table and whose result is the entry after it
C4_Witness ==
    /\ find.op = "mib_findnext"
    /\ mib_status.ret = 0
    /\ g_interface_list_length > 0
    /\ Ascending(g_mib)
    /\ find.found
    /\ find.pos > 0
    /\ g_mib[find.pos].oid = find.oid

C20_BuildStopsAtFirstFailure ==
    mib_status.built /\ mib_status.failed > 0 =>
        /\ mib_status.ret = -1
        /\ Len(g_mib) = mib_status.failed

\* the positions (from 0) at or after the cursor whose entry starts with
\* the probe
Matches(mib, oid, cursor) ==
    {q \in cursor..(Len(mib) - 1) :
        /\ Len(mib[q + 1].oid) >= Len(oid)
        /\ SubSeq(mib[q + 1].oid, 1, Len(oid)) = oid}

\* C21: mib_find returns the entry at the least position at or after the
\* cursor whose OID is at least as long as the probe and agrees with it on
\* the probe's sub-identifiers, and leaves the cursor there, so that the
\* same call again returns the same entry; when there is none it returns
\* none with the cursor at the table length; the cursor never decreases and
\* the table is not modified.
C21_FindFirstPrefixMatch ==
    /\ [](find.op = "mib_find" =>
            /\ find.found <=> Matches(g_mib, find.oid, find.cursor) # {}
            /\ find.found =>
                  /\ find.pos \in Matches(g_mib, find.oid, find.cursor)
                  /\ \A q \in Matches(g_mib, find.oid, find.cursor) : find.pos <= q
            /\ ~find.found => find.pos = Len(g_mib)
            /\ find.pos >= find.cursor
            /\ find.again = [found |-> find.found, pos |-> find.pos])
    /\ [][find'.op = "mib_find" => g_mib' = g_mib]_vars

\* a lookup that passes entries that do not match and stops at an entry
\* longer than the probe
C21_Witness ==
    /\ find.op = "mib_find"
    /\ find.found
    /\ find.pos > find.cursor
    /\ find.cursor > 0
    /\ Len(g_mib[find.pos + 1].oid) > Len(find.oid)
    /\ Len(find.oid) > 0

---------------------------------------------------------------------------
(* C26: the order of the interface addresses                               *)

\* the comparison of two addresses as unsigned 32-bit numbers
UnsignedCmp(a, b) == IF a = b THEN 0 ELSE IF ULt(a, b) THEN -1 ELSE 1

\* whether the entry is a row of the column of the IP address table
IsIpRow(entry, column) ==
    /\ Len(entry.oid) = 14
    /\ SubSeq(entry.oid, 1, 10) = SubSeq(m_ip_adentry_oid(column), 1, 10)

\* C26: in_cmp agrees in sign with the unsigned comparison of the two
\* addresses, for all addresses of the interfaces, so that sort_addr orders
\* them ascending, and after a build with distinct addresses the rows of
\* each column of the IP address table are in strictly ascending OID order.
C26_SortAddrAscendingUnsigned ==
    mib_status.built =>
        /\ \A i, j \in 1..g_interface_list_length :
              in_cmp(netinfo_in_addr[i], netinfo_in_addr[j])
                  = UnsignedCmp(netinfo_in_addr[i], netinfo_in_addr[j])
        /\ (/\ mib_status.ret = 0
            /\ mib_status.failed = 0
            /\ \A i, j \in 1..g_interface_list_length :
                  i # j => netinfo_in_addr[i] # netinfo_in_addr[j])
              => \A column \in 1..4 : \A k \in 1..(Len(g_mib) - 1) :
                    (IsIpRow(g_mib[k], column) /\ IsIpRow(g_mib[k + 1], column))
                        => \E n \in 11..14 :
                              /\ SubSeq(g_mib[k].oid, 11, n - 1)
                                    = SubSeq(g_mib[k + 1].oid, 11, n - 1)
                              /\ ULt(g_mib[k].oid[n], g_mib[k + 1].oid[n])

---------------------------------------------------------------------------
(* C23, C24, C25: the data buffer                                          *)

\* C23: for every supported type and value, data_set after data_alloc
\* writes no octet beyond the buffer: what it wrote and encoded_length are
\* at most max_length; the buffer of an OCTET STRING is reallocated to hold
\* the string before it is written, and the buffer of an OID keeps the size
\* data_alloc gave it.
C23_NoWriteBeyondBuffer ==
    ber.op \in {"data_alloc", "data_set"} =>
        /\ Len(ber.data.buffer) <= ber.data.max_length
        /\ ber.written <= ber.data.max_length
        /\ ber.data.encoded_length <= ber.data.max_length
        /\ (ber.type = BER_TYPE_OCTET_STRING /\ ber.op = "data_set" /\ ~ber.null)
              => ber.data.max_length >= Len(ber.string) + 4
        /\ ber.type = BER_TYPE_OID => ber.data.max_length = MAX_NR_SUBIDS * 5 + 4

\* an OID of MAX_NR_SUBIDS sub-identifiers, 18 of them of five octets
C23_Witness ==
    /\ ber.op = "data_set"
    /\ ber.type = BER_TYPE_OID
    /\ ber.ret = 0
    /\ ber.written = 2 + 1 + (MAX_NR_SUBIDS - 2) * 5
    /\ ber.data.buffer[ber.written] = 127

\* the data is a type octet, length octets, and as many value octets as
\* they announce, encoded_length octets in all
WellFormedTlv(data, type) ==
    /\ Len(data.buffer) >= 2
    /\ data.buffer[1] = type
    /\ data.encoded_length =
          IF data.buffer[2] < 128 THEN 2 + data.buffer[2]
          ELSE IF data.buffer[2] = 129 THEN 3 + data.buffer[3]
          ELSE 4 + data.buffer[3] * 256 + data.buffer[4]

\* C24: after mib_build every entry's data is a well-formed TLV of the
\* entry's type: the first octet is the type and encoded_length is the type
\* octet, the length octets and the value length they announce, also for
\* the entries that mib_alloc_entry adds without a value.
C24_EntriesAreWellFormedTlv ==
    (mib_status.built /\ mib_status.ret = 0 /\ mib_status.failed = 0) =>
        \A k \in 1..Len(g_mib) : WellFormedTlv(g_mib[k].data, g_mib[k].type)

\* C25: for every length encode_byte_array accepts, encoded_length is 1,
\* the number of length octets and the length of the string, and is not
\* negative.
C25_EncodedLengthNeverWraps ==
    (ber.op = "encode_byte_array" /\ ber.ret = 0) =>
        /\ ber.data.encoded_length >= 0
        /\ ber.data.encoded_length
              = 1 + (IF Len(ber.string) <= 127 THEN 1
                     ELSE IF Len(ber.string) <= 255 THEN 2 ELSE 3)
                  + Len(ber.string)

---------------------------------------------------------------------------
(* C22: the timeout of select                                              *)

\* tv_sleep in ticks
SleepTicks(tv) == tv[1] * 100 + tv[2] \div 10000

\* whether time a is before time b
Before(a, b) == a[1] < b[1] \/ (a[1] = b[1] /\ a[2] < b[2])

\* the whole ticks from time a to time b
ElapsedTicks(a, b) == (b[1] - a[1]) * 100 + (b[2] - a[2]) \div 10000

\* C22: after every pass the timeout for the next select is greater than 0
\* and at most g_timeout ticks; it is g_timeout less the ticks since the
\* tick base when these are in [0, g_timeout), and when they are g_timeout
\* or more, or the clock ran backwards, the tick base becomes the current
\* time and the timeout is the whole period.
C22_SleepBoundedByPeriod ==
    tick.passed =>
        /\ SleepTicks(tick.tv_sleep) \in 1..g_timeout
        /\ tick.tv_sleep[2] \in 0..999999
        /\ tick.got =>
              IF ~Before(tick.tv_now, tick.before)
                 /\ ElapsedTicks(tick.before, tick.tv_now) < g_timeout
              THEN /\ SleepTicks(tick.tv_sleep)
                        = g_timeout - ElapsedTicks(tick.before, tick.tv_now)
                   /\ tick.tv_last = tick.before
              ELSE /\ tick.tv_last = tick.tv_now
                   /\ tick.tv_sleep = SleepFor(g_timeout)

\* a pass 99 ticks after the tick base, across a second
C22_Witness ==
    /\ tick.passed
    /\ tick.got
    /\ tick.before = <<0, 10000>>
    /\ tick.tv_now = <<1, 9999>>
    /\ tick.tv_sleep = <<0, 10000>>

---------------------------------------------------------------------------
(* Properties of the transport loop.                                       *)

\* C1: when handle_tcp_connect accepts a connection while the table holds
\* MAX_NR_CLIENTS clients, exactly one of them is closed and replaced by
\* the new connection, it has the least timestamp of the table, and no
\* other client changes.
C1_EvictsExactlyTheOldest ==
    [][(/\ pc = "connect"
        /\ ev'.op = "connect"
        /\ ev'.slot > 0
        /\ Len(g_tcp_client_list) >= MAX_NR_CLIENTS)
       => \E k \in 1..Len(g_tcp_client_list) :
             /\ \A j \in 1..Len(g_tcp_client_list) :
                   g_tcp_client_list[k].timestamp <= g_tcp_client_list[j].timestamp
             /\ g_tcp_client_list[k].sockfd \in open_fds
             /\ open_fds' = (open_fds \ {g_tcp_client_list[k].sockfd}) \cup {ev'.rv}
             /\ g_tcp_client_list' =
                   [g_tcp_client_list EXCEPT ![k] = NewClient(ev'.rv, now)]]_vars

\* an accept on a full table that kicked out the second client while a
\* client with a later timestamp stayed
C1_Witness ==
    /\ ev.op = "connect"
    /\ ev.before >= MAX_NR_CLIENTS
    /\ ev.slot > 1
    /\ \E j \in 1..Len(g_tcp_client_list) :
          j # ev.slot /\ g_tcp_client_list[j].timestamp > ev.kicked

\* C2: the engine is invoked in the read after which snmp_packet_complete
\* first reports the packet complete, and in no earlier read: a client
\* still reading holds all the bytes that arrived, in arrival order, they
\* are not a complete packet, and the engine has not been invoked on them;
\* a client with a staged response has had the engine invoked once.
C2_EngineOnceWhenComplete ==
    /\ ev.op = "read" => (ev.engine <=> ev.complete = 1)
    /\ \A k \in 1..Len(g_tcp_client_list) :
          LET c == g_tcp_client_list[k]
          IN  /\ c.calls <= 1
              /\ (c.sockfd # -1 /\ c.outgoing = 0) =>
                    /\ c.calls = 0
                    /\ SubSeq(c.packet, 1, c.size) = c.arrived
                    /\ snmp_packet_complete(c.arrived, Len(c.arrived)) = 0
              /\ c.outgoing # 0 =>
                    /\ c.calls = 1
                    /\ snmp_packet_complete(c.arrived, Len(c.arrived)) = 1

\* a read that completed a packet whose first bytes came with an earlier
\* read, after which the response is staged
C2_Witness ==
    /\ ev.op = "read"
    /\ ev.before > 0
    /\ ev.rv > 0
    /\ ev.complete = 1
    /\ ev.engine
    /\ g_tcp_client_list[ev.slot].outgoing = 1
    /\ g_tcp_client_list[ev.slot].calls = 1
    /\ Len(g_tcp_client_list[ev.slot].arrived) = ev.before + ev.rv

\* C9: the fill length of every client buffer is at most MAX_PACKET_SIZE,
\* and a read on a client whose buffer is full closes the connection
\* without adding a byte and without invoking the engine.
C9_SizeWithinPacket ==
    /\ \A k \in 1..Len(g_tcp_client_list) :
          /\ g_tcp_client_list[k].size <= MAX_PACKET_SIZE
          /\ Len(g_tcp_client_list[k].packet) = g_tcp_client_list[k].size
    /\ (ev.op = "read" /\ ev.before = MAX_PACKET_SIZE) =>
          /\ g_tcp_client_list[ev.slot].sockfd = -1
          /\ g_tcp_client_list[ev.slot].size = MAX_PACKET_SIZE
          /\ ~ev.engine

\* a read on a client whose buffer was full of an incomplete packet
C9_Witness ==
    /\ ev.op = "read"
    /\ ev.before = MAX_PACKET_SIZE
    /\ g_tcp_client_list[ev.slot].sockfd = -1
    /\ g_tcp_client_list[ev.slot].outgoing = 0
    /\ g_tcp_client_list[ev.slot].calls = 0

\* one turn of the client loop keeps to the direction of the client
OneDirection ==
    (pc = "clients" /\ pos_i <= Len(g_tcp_client_list) /\ pos_i' = pos_i + 1) =>
        LET before == g_tcp_client_list[pos_i]
            after == g_tcp_client_list'[pos_i]
            op == IF ev'.slot = pos_i THEN ev'.op ELSE "skip"
        IN  /\ before.outgoing # 0 =>
                  /\ op # "read"
                  /\ Len(after.arrived) <= Len(before.arrived)
                  /\ after.calls <= before.calls
            /\ before.outgoing = 0 => op # "write"
            /\ op # "skip" => before.sockfd \notin handled
            /\ \A k \in 1..Len(g_tcp_client_list) :
                  k # pos_i => g_tcp_client_list'[k] = g_tcp_client_list[k]

\* C10: a client is in one direction at a time and is handled at most once
\* per pass: while a response is staged the loop does not read from the
\* client nor invoke the engine for it, and while the client is read from
\* the loop does not send to it; a staged response answers one request.
C10_OneDirectionOncePerPass ==
    /\ [](\A k \in 1..Len(g_tcp_client_list) :
            /\ g_tcp_client_list[k].outgoing \in {0, 1}
            /\ g_tcp_client_list[k].outgoing = 1 =>
                  g_tcp_client_list[k].calls = 1 /\ g_tcp_client_list[k].size > 0)
    /\ [][OneDirection]_vars

\* a pass in which two clients were handled, the last of them sent to
C10_Witness ==
    /\ ev.op = "write"
    /\ ev.rv = ev.before
    /\ Cardinality(handled) = 2
    /\ g_tcp_client_list[ev.slot].outgoing = 0

\* a turn of the client loop in which handle_tcp_client_write ran
WriteTurn ==
    /\ pc = "clients"
    /\ pos_i <= Len(g_tcp_client_list)
    /\ pos_i' = pos_i + 1
    /\ ev'.op = "write"
    /\ ev'.slot = pos_i

\* what handle_tcp_client_write left of the client it was called for
WriteOutcome ==
    WriteTurn =>
        LET before == g_tcp_client_list[pos_i]
            after == g_tcp_client_list'[pos_i]
        IN  IF ev'.rv # -1 /\ ev'.rv = before.size
            THEN /\ after.sockfd = before.sockfd
                 /\ after.outgoing = 0
                 /\ after.size = 0
                 /\ open_fds' = open_fds
            ELSE /\ after.sockfd = -1
                 /\ before.sockfd \in open_fds
                 /\ before.sockfd \notin open_fds'

\* C11: a send that fails or sends fewer bytes than are staged closes the
\* socket and stores -1 in sockfd, and a client so marked is behind the
\* index of the client loop, so it is not sent to or read from again; a
\* send of the staged size puts the client back into the read direction
\* with size 0 and its socket open.
C11_WriteClosesOrReturns ==
    /\ [](\A k \in 1..Len(g_tcp_client_list) :
            g_tcp_client_list[k].sockfd = -1 => (pc = "clients" /\ k < pos_i))
    /\ [][WriteOutcome]_vars

\* a short send after which the client is marked closed
C11_Witness ==
    /\ ev.op = "write"
    /\ ev.rv >= 0
    /\ ev.rv < ev.before
    /\ g_tcp_client_list[ev.slot].sockfd = -1

IsOpen(client) == client.sockfd # -1

\* what the compaction at the end of a pass leaves of the list
CompactOutcome ==
    (pc = "clients" /\ pc' = "loop") =>
        /\ g_tcp_client_list' = SelectSeq(g_tcp_client_list, IsOpen)
        /\ Len(g_tcp_client_list') =
              Len(g_tcp_client_list)
              - Cardinality({k \in 1..Len(g_tcp_client_list) :
                               ~IsOpen(g_tcp_client_list[k])})

OthersUnchanged ==
    (pc = "clients" /\ pos_i <= Len(g_tcp_client_list) /\ pos_i' = pos_i + 1) =>
        /\ Len(g_tcp_client_list') = Len(g_tcp_client_list)
        /\ \A k \in 1..Len(g_tcp_client_list) :
              k # pos_i => g_tcp_client_list'[k] = g_tcp_client_list[k]
        /\ IF IsOpen(g_tcp_client_list[pos_i]) /\ ~IsOpen(g_tcp_client_list'[pos_i])
           THEN open_fds' = open_fds \ {g_tcp_client_list[pos_i].sockfd}
           ELSE open_fds' = open_fds

\* C13: a handler call that closes its client closes the descriptor of
\* that client only: every other client keeps its socket, size, direction
\* and timestamp, and the UDP socket and the listening socket stay open.
C13_ErrorsCloseOnlyThatClient ==
    /\ [](/\ {g_udp_sockfd, g_tcp_sockfd} \subseteq open_fds
          /\ \A k \in 1..Len(g_tcp_client_list) :
                IsOpen(g_tcp_client_list[k]) => g_tcp_client_list[k].sockfd \in open_fds)
    /\ [][OthersUnchanged]_vars

\* the engine failed for the second client, which is closed, while the
\* first one, handled earlier in the pass, is open
C13_Witness ==
    /\ ev.op = "read"
    /\ ev.engine
    /\ ev.result = -1
    /\ ev.slot = 2
    /\ ~IsOpen(g_tcp_client_list[2])
    /\ IsOpen(g_tcp_client_list[1])
    /\ g_tcp_client_list[1].sockfd \in handled

\* C14: the process exits from the loop only when the eviction finds no
\* client in a full table; no other failure makes it exit.
C14_OnlyInvariantFailureExits ==
    pc = "exit" => ev.cause = "no oldest client"

\* the interrupted select, the loop condition and the way out
QuitSteps ==
    /\ (pc = "loop" /\ g_quit # 0) => pc' \in {"loop", "stopped"}
    /\ (pc = "select" /\ g_quit = 0 /\ g_quit' # 0) => pc' = "stopped"
    /\ (pc # "stopped" /\ pc' = "stopped") =>
          /\ g_quit # 0 \/ pc = "select"
          /\ open_fds' = open_fds
          /\ g_tcp_client_list' = g_tcp_client_list
    /\ pc = "stopped" => pc' = "stopped"

C16_ResponseIffEngineSucceeds ==
    /\ g_udp_sockfd \notin wfds \cup WriteSet(g_tcp_client_list)
    /\ udp_ev.op = "udp" =>
          /\ udp_ev.engine <=> udp_ev.rv # -1
          /\ Len(udp_ev.sent) = (IF udp_ev.engine /\ udp_ev.result > 0 THEN 1 ELSE 0)
          /\ \A n \in 1..Len(udp_ev.sent) :
                /\ udp_ev.sent[n].to = udp_ev.from
                /\ udp_ev.sent[n].size = udp_ev.result
                /\ g_udp_client.size = udp_ev.result
                /\ g_udp_client.packet = Response(udp_ev.result)
    /\ (ev.op = "read" /\ ev.engine) =>
          LET c == g_tcp_client_list[ev.slot]
          IN  IF ev.result > 0
              THEN IsOpen(c) /\ c.outgoing = 1 /\ c.size = ev.result
              ELSE ~IsOpen(c) /\ c.outgoing = 0

\* a datagram of the second peer that was answered
C16_Witness ==
    /\ udp_ev.op = "udp"
    /\ udp_ev.from = "peer2"
    /\ udp_ev.result > 0
    /\ Len(udp_ev.sent) = 1
    /\ udp_ev.sent[1].to = "peer2"

---------------------------------------------------------------------------
(* C17: the ports of the two sockets                                       *)

\* the port the options configure for TCP: -P when given, else the UDP port
ConfiguredUdpPort == IF start.opt_p # 0 THEN start.opt_p ELSE 161
ConfiguredTcpPort == IF start.opt_P # 0 THEN start.opt_P ELSE ConfiguredUdpPort

\* C17: once main listens, the TCP socket is bound to the configured TCP
\* port (the port of -P when it is given, the UDP port otherwise), and the
\* ports of the start message are the ports the sockets are bound to.
C17_TcpListensOnConfiguredPort ==
    start.phase = "listening" =>
        /\ start.udp_bound = ConfiguredUdpPort
        /\ start.tcp_bound = ConfiguredTcpPort
        /\ start.msg_udp = start.udp_bound
        /\ start.msg_tcp = start.tcp_bound

---------------------------------------------------------------------------
(* C18: the length forms of encode_byte_array                              *)

\* the octets after the header of hdr octets
AfterHeader(buffer, hdr) == SubSeq(buffer, hdr + 1, Len(buffer))

\* C18: encode_byte_array writes the length in one octet for 0..127, as 0x81
\* and one octet for 128..255, as 0x82 and two big-endian octets for
\* 256..65535, and then exactly the octets of the string; above 65535 it
\* returns -1, writes nothing, and mib_data_set fails.
C18_ByteArrayLengthForms ==
    ber.op = "encode_byte_array" =>
        LET len == Len(ber.string)
            b   == SubSeq(ber.data.buffer, 1, ber.written)
        IN  IF len > 65535
            THEN /\ ber.ret = -1
                 /\ ~ber.set
                 /\ ber.written = 0
                 /\ SubSeq(ber.data.buffer, 1, 3) = <<BER_TYPE_OCTET_STRING, 0, 0>>
                 /\ ber.data.encoded_length = 3
            ELSE /\ ber.ret = 0
                 /\ ber.set
                 /\ b[1] = BER_TYPE_OCTET_STRING
                 /\ IF len <= 127
                    THEN b[2] = len /\ AfterHeader(b, 2) = ber.string
                    ELSE IF len <= 255
                    THEN b[2] = 129 /\ b[3] = len /\ AfterHeader(b, 3) = ber.string
                    ELSE /\ b[2] = 130
                         /\ b[3] * 256 + b[4] = len
                         /\ AfterHeader(b, 4) = ber.string

C18_Witness ==
    /\ ber.op = "encode_byte_array"
    /\ Len(ber.string) = 256
    /\ ber.ret = 0
    /\ SubSeq(ber.data.buffer, 1, 4) = <<BER_TYPE_OCTET_STRING, 130, 1, 0>>
    /\ ber.data.encoded_length = 260

---------------------------------------------------------------------------
(* C19: the octets of the integer encoders                                 *)

\* the octets extended on the left to width octets with fill
PadLeft(octets, width, fill) ==
    [j \in 1..width |-> IF j <= width - Len(octets) THEN fill
                        ELSE octets[j - (width - Len(octets))]]

\* the limbs of an even number of big-endian octets
LimbsOf(octets) ==
    [n \in 1..(Len(octets) \div 2) |-> octets[2 * n - 1] * 256 + octets[2 * n]]

\* the two's-complement reading of 1..4 octets, as a 32-bit pattern
DecodeSigned(octets) ==
    LimbsOf(PadLeft(octets, 4, IF octets[1] >= 128 THEN 255 ELSE 0))

\* the unsigned reading of the octets, in width octets
DecodeUnsigned(octets, width) == LimbsOf(PadLeft(octets, width, 0))

\* the value octets the last encoder call wrote
BerOctets == SubSeq(ber.data.buffer, 3, ber.written)

\* type octet, length octet equal to the number of value octets, which is
\* 1..width
BerFrame(width) ==
    /\ ber.ret = 0
    /\ ber.data.buffer[1] = ber.type
    /\ ber.data.buffer[2] = Len(BerOctets)
    /\ Len(BerOctets) \in 1..width
    /\ ber.data.encoded_length = ber.written
    /\ ber.data.encoded_length <= ber.data.max_length

\* C19: encode_integer writes the fewest (1..4) big-endian two's-complement
\* octets that decode to the value; encode_unsigned (1..4 octets) and
\* encode_unsigned64 (1..8 octets) write the fewest octets whose unsigned
\* reading is the value, with a clear top bit when the value is below 2^31
\* (2^63); the length octet is the number of value octets.
C19_MinimalIntegerOctets ==
    /\ ber.op = "encode_integer" =>
          /\ BerFrame(4)
          /\ DecodeSigned(BerOctets) = ber.value
          /\ Len(BerOctets) > 1 =>
                /\ ~(BerOctets[1] = 0 /\ BerOctets[2] < 128)
                /\ ~(BerOctets[1] = 255 /\ BerOctets[2] >= 128)
    /\ ber.op = "encode_unsigned" =>
          /\ BerFrame(4)
          /\ DecodeUnsigned(BerOctets, 4) = ber.value
          /\ Len(BerOctets) > 1 => ~(BerOctets[1] = 0 /\ BerOctets[2] < 128)
          /\ ber.value[1] < 32768 => BerOctets[1] < 128
    /\ ber.op = "encode_unsigned64" =>
          /\ BerFrame(8)
          /\ DecodeUnsigned(BerOctets, 8) = ber.value
          /\ Len(BerOctets) > 1 => ~(BerOctets[1] = 0 /\ BerOctets[2] < 128)
          /\ ber.value[1] < 32768 => BerOctets[1] < 128

\* -129 in two octets
C19_Witness ==
    /\ ber.op = "encode_integer"
    /\ ber.value = <<65535, 65407>>
    /\ SubSeq(ber.data.buffer, 1, ber.written) = <<BER_TYPE_INTEGER, 2, 255, 127>>


---------------------------------------------------------------------------
\* C30: every connection record that the compaction pass removes from the
\* table is freed exactly once, also when the closed connection is the last
\* entry of the table: the pass calls free() as many times as it removes
\* records, so none is left allocated outside the table
C30_RemovedRecordsFreedOnce ==
    ev.op = "compact" =>
        /\ ev.before - Len(g_tcp_client_list) = ev.rv
        /\ ev.freed = ev.rv


---------------------------------------------------------------------------
\* every client of the table has an open socket of its own, or none
OwnSockets ==
    \A k \in 1..Len(g_tcp_client_list) :
        g_tcp_client_list[k].sockfd # -1 =>
            /\ g_tcp_client_list[k].sockfd \in open_fds
            /\ g_tcp_client_list[k].sockfd \notin {g_udp_sockfd, g_tcp_sockfd}
            /\ \A j \in 1..Len(g_tcp_client_list) :
                  j # k => g_tcp_client_list[j].sockfd # g_tcp_client_list[k].sockfd

\* the buffer of an open client holds what arrived on its connection, or the
\* response the engine staged for the request that arrived on it
OwnBytes ==
    \A k \in 1..Len(g_tcp_client_list) :
        /\ (g_tcp_client_list[k].outgoing = 0 /\ g_tcp_client_list[k].sockfd # -1) =>
              /\ g_tcp_client_list[k].size = Len(g_tcp_client_list[k].arrived)
              /\ g_tcp_client_list[k].packet = g_tcp_client_list[k].arrived
        /\ g_tcp_client_list[k].outgoing # 0 =>
              /\ g_tcp_client_list[k].arrived # <<>>
              /\ g_tcp_client_list[k].calls > 0

\* an accept on a full table: the slot of the kicked-out client is in read
\* direction with nothing in its buffer, stamped with the time of the
\* accept, on the accepted socket, which this pass does not handle
EvictionStartsClean ==
    (/\ pc = "connect"
     /\ ev'.op = "connect"
     /\ ev'.slot > 0
     /\ Len(g_tcp_client_list) >= MAX_NR_CLIENTS)
    => /\ g_tcp_client_list'[ev'.slot].size = 0
       /\ g_tcp_client_list'[ev'.slot].outgoing = 0
       /\ g_tcp_client_list'[ev'.slot].packet = <<>>
       /\ g_tcp_client_list'[ev'.slot].arrived = <<>>
       /\ g_tcp_client_list'[ev'.slot].calls = 0
       /\ g_tcp_client_list'[ev'.slot].timestamp = now
       /\ g_tcp_client_list'[ev'.slot].sockfd = ev'.rv
       /\ ev'.rv \notin rfds' \cup wfds'
       /\ ev'.rv \notin {g_tcp_client_list[k].sockfd : k \in 1..Len(g_tcp_client_list)}
       /\ g_tcp_client_list[ev'.slot].sockfd \notin open_fds'
       /\ \A j \in 1..Len(g_tcp_client_list) :
             j # ev'.slot => g_tcp_client_list'[j] = g_tcp_client_list[j]

\* a send goes to the socket of the client whose staged bytes it sends, and
\* touches no other client
SendOnOwnSocket ==
    WriteTurn
    => /\ g_tcp_client_list[pos_i].outgoing # 0
       /\ g_tcp_client_list[pos_i].sockfd \in wfds
       /\ g_tcp_client_list[pos_i].sockfd \in open_fds
       /\ handled' = handled \cup {g_tcp_client_list[pos_i].sockfd}
       /\ ev'.before = g_tcp_client_list[pos_i].size
       /\ \A j \in 1..Len(g_tcp_client_list) :
             j # pos_i => g_tcp_client_list'[j] = g_tcp_client_list[j]

\* C27: when a full table forces an eviction, the accepted connection takes
\* over the evicted slot in read direction with fill length 0 and a fresh
\* timestamp, so nothing received from or staged for the evicted peer is
\* sent to or parsed as input from the new peer; in every state the bytes
\* staged for a connection are sent only on that connection's own socket.
C27_EvictedSlotStartsClean ==
    /\ [](OwnSockets /\ OwnBytes)
    /\ [][EvictionStartsClean /\ SendOnOwnSocket]_vars

\* an accept on a full table that kicked out a client with bytes in its
\* buffer
C27_Witness ==
    /\ ev.op = "connect"
    /\ ev.before >= MAX_NR_CLIENTS
    /\ ev.slot > 0
    /\ ev.lost > 0
    /\ g_tcp_client_list[ev.slot].size = 0
    /\ g_tcp_client_list[ev.slot].sockfd = ev.rv


---------------------------------------------------------------------------
\* a step of main in which handle_tcp_connect called accept
AcceptTurn ==
    /\ pc = "connect"
    /\ ev'.op = "connect"

\* what handle_tcp_connect does to the table, by the result of accept and
\* the length of the table
AcceptOutcome ==
    AcceptTurn =>
        /\ ev'.before = Len(g_tcp_client_list)
        /\ (ev'.rv = -1 \/ ev'.rv >= FD_SETSIZE) =>
              /\ g_tcp_client_list' = g_tcp_client_list
              /\ open_fds' = open_fds
              /\ ev'.slot = 0
              /\ ev'.kicked = -1
              /\ pc' = "clients"
        /\ pc' = "exit" => g_tcp_client_list' = g_tcp_client_list
        /\ (/\ ev'.rv \in 0..(FD_SETSIZE - 1)
            /\ pc' # "exit"
            /\ Len(g_tcp_client_list) < MAX_NR_CLIENTS) =>
              /\ Len(g_tcp_client_list') = Len(g_tcp_client_list) + 1
              /\ SubSeq(g_tcp_client_list', 1, Len(g_tcp_client_list)) = g_tcp_client_list
              /\ g_tcp_client_list'[Len(g_tcp_client_list')].sockfd = ev'.rv
              /\ ev'.slot = Len(g_tcp_client_list')
              /\ ev'.kicked = -1
              /\ open_fds' = open_fds \cup {ev'.rv}
        /\ (/\ ev'.rv \in 0..(FD_SETSIZE - 1)
            /\ pc' # "exit"
            /\ Len(g_tcp_client_list) >= MAX_NR_CLIENTS) =>
              /\ Len(g_tcp_client_list') = MAX_NR_CLIENTS
              /\ ev'.slot \in 1..MAX_NR_CLIENTS

\* C28: in every state 0 <= g_tcp_client_list_length <= MAX_NR_CLIENTS; an
\* accept below capacity appends exactly one connection at the end of the
\* table, an accept at capacity keeps the length at MAX_NR_CLIENTS, and an
\* accept that fails or returns a descriptor >= FD_SETSIZE leaves the
\* table and every connection unchanged, with no eviction.
C28_TableLengthBounded ==
    /\ [](Len(g_tcp_client_list) \in 0..MAX_NR_CLIENTS)
    /\ [][AcceptOutcome]_vars

\* an accept on a full table that returned a descriptor that does not fit
\* an fd_set: nobody was kicked out
C28_Witness ==
    /\ ev.op = "connect"
    /\ ev.before = MAX_NR_CLIENTS
    /\ ev.rv >= FD_SETSIZE
    /\ ev.kicked = -1
    /\ Len(g_tcp_client_list) = MAX_NR_CLIENTS


---------------------------------------------------------------------------
\* the client on socket fd is in write direction
WritePending(fd) ==
    \E k \in 1..Len(g_tcp_client_list) :
        g_tcp_client_list[k].sockfd = fd /\ g_tcp_client_list[k].outgoing # 0

\* how the client at slot k leaves write direction: a send of the whole
\* response puts it back into read direction on the same socket, a failed
\* or short send closes it, an accept on a full table kicks it out
LeavesWriteDirection ==
    \A k \in 1..Len(g_tcp_client_list) :
        (/\ g_tcp_client_list[k].outgoing # 0
         /\ g_tcp_client_list[k].sockfd # -1
         /\ g_tcp_client_list' # g_tcp_client_list
         /\ Len(g_tcp_client_list') >= k
         /\ g_tcp_client_list'[k] # g_tcp_client_list[k])
        => \/ /\ ev'.op = "write"
              /\ ev'.slot = k
              /\ ev'.rv = g_tcp_client_list[k].size
              /\ g_tcp_client_list'[k].sockfd = g_tcp_client_list[k].sockfd
              /\ g_tcp_client_list'[k].outgoing = 0
              /\ g_tcp_client_list'[k].size = 0
           \/ /\ ev'.op = "write"
              /\ ev'.slot = k
              /\ ev'.rv # g_tcp_client_list[k].size
              /\ g_tcp_client_list'[k].sockfd = -1
              /\ g_tcp_client_list[k].sockfd \notin open_fds'
           \/ /\ ev'.op = "connect"
              /\ ev'.slot = k
              /\ ev'.before >= MAX_NR_CLIENTS
              /\ g_tcp_client_list[k].sockfd \notin open_fds'
              /\ g_tcp_client_list'[k].outgoing = 0
           \/ /\ ev'.op = "compact"
              /\ g_tcp_client_list'[k] \in {g_tcp_client_list[j] : j \in (k + 1)..Len(g_tcp_client_list)}

\* C29: as long as the loop keeps making passes and a socket in write
\* direction is reported write-ready in the end, every response staged on a
\* TCP connection is eventually sent in full, after which the connection is
\* back in read direction, or its connection is closed (send error, short
\* write or eviction); no connection stays in write direction forever.
C29_StagedResponseLeaves ==
    /\ [][LeavesWriteDirection]_vars
    /\ \A fd \in ClientFds :
          ([]<>(pc = "select")) => (WritePending(fd) ~> ~WritePending(fd))

\* a whole response has been sent and the client is back in read direction
C29_Witness ==
    /\ ev.op = "write"
    /\ ev.before > 0
    /\ ev.rv = ev.before
    /\ g_tcp_client_list[ev.slot].outgoing = 0
    /\ g_tcp_client_list[ev.slot].sockfd \in open_fds
    /\ pos_i = ev.slot + 1

==========================================================================
